---- MODULE Spec2Model ----
(***************************************************************************)
(* Antiflood quota engine (quotaFloodPreventer) of elrond-go.              *)
(*                                                                         *)
(* The engine keeps one quota record per peer in a bounded cacher and one  *)
(* global quota record.  Accumulate, AccumulateGlobal and Reset run under  *)
(* the engine's mutex (mutOperation), so each call is one atomic step and  *)
(* concurrent callers are modelled by interleaving whole calls.            *)
(*                                                                         *)
(* The cacher stores *quota pointers: the record obtained by cacher.Get is *)
(* the cached object itself, so the field updates made by accumulate are   *)
(* updates of the cached record, on the rejecting path too.                *)
(*                                                                         *)
(* The cacher itself (storage.Cacher) is a bounded key-value store with    *)
(* least-recently-used eviction.  The history variable calls records the   *)
(* calls made since construction or the last Reset; at most MaxCalls calls *)
(* are explored between two Resets, which keeps every counter below the    *)
(* wrap-around of its unsigned type.                                       *)
(***************************************************************************)
EXTENDS Integers, Sequences, FiniteSets, TLC

\* ---------------------------------------------------------------- bounds --
CacheSize == 1                \* capacity of the quota cacher
MaxArg == 2                   \* largest maximum handed to the constructor
MaxHandlers == 2              \* longest status handler list handed to it
MaxNilArgs == 2               \* nil collaborators handed to the factory at once
MaxKeys == 2                  \* longest key list handed to AddMultiple
MaxInvocations == 2           \* interceptor invocations running at once
MaxHeaders == 2               \* longest list handed to the shard id checks
MaxRootHash == 2              \* last root hash the peer accounts trie reaches
numGoRoutines == 1            \* scaled stand-in for the throttler's maximum
MaxRound == 3                 \* last round index the round clock reaches
MaxPuts == 2                  \* transactions third parties put into the pools
\* scaled stand-in for process.MaxRoundsToKeepUnprocessedTransactions
MaxRoundsToKeepUnprocessedTransactions == 1
MaxMsgSize == 3               \* largest message size tried
MaxCalls == 4                 \* Accumulate* calls explored between two Resets
Uint32Range == 64             \* scaled stand-in for 2^32 (uint32 counters)
Uint64Range == 256            \* scaled stand-in for 2^64 (uint64 counters)

\* engine configuration handed to NewQuotaFloodPreventer
maxMessagesPerPeer == 2
maxSizePerPeer == 2
maxMessages == 2
maxSize == 4

\* ------------------------------------------------------- program constants --
minMessages == 1
minTotalSize == 1
initNumMessages == 1

\* the peer identifiers and message sizes the calls are made with: one peer
\* more than the cacher holds, and sizes below and above the per-peer budget
Peers == {"p1", "p2"}
Sizes == {0, 1, MaxMsgSize}

VARIABLES
    cacher,          \* qfp.cacher: sequence of [key, value], least recently used first
    globalQuota,     \* qfp.globalQuota
    statusHandlers,  \* number of registered QuotaStatusHandlers
    statusLog,       \* per status handler, the notifications of the last Reset
    calls,           \* history: the Accumulate* calls since construction / the last Reset
    afterReset       \* history: TRUE once Reset has been called

\* the constructor call under study: its arguments and what it returned
VARIABLES newArgs, newResult

\* the transaction pools cleaner (txsPoolsCleaner) and its surroundings
VARIABLES
    pools,           \* dataPool: per transaction type, the sub-caches by shard pair
    mapTxsRounds,    \* tpc.mapTxsRounds: hash -> txInfo
    round,           \* rounder.Index()
    inflight,        \* pool notifier callbacks invoked and not yet returned
    reaper,          \* the cleanTxsPools goroutine: asleep or inside a pass
    fired,           \* history: per hash, the callbacks run since its record was deleted
    putsLeft,        \* transactions third parties may still put
    insertions,      \* history: per sub-cache and hash, its most recent put
    critical         \* callbacks between Lock and Unlock of mutMapTxsRounds

quotaVars == <<cacher, globalQuota, statusHandlers, statusLog, calls, afterReset>>
newVars == <<newArgs, newResult>>

cleanerVars ==
    <<pools, mapTxsRounds, round, inflight, reaper, fired, putsLeft, insertions,
      critical>>

\* the shard interceptors container factory and its surroundings
VARIABLES
    args,            \* the ShardInterceptorsContainerFactoryArgs handed over
    sicf,            \* what NewShardInterceptorsContainerFactory returned
    container,       \* sicf.container: the (key, interceptor) pairs it holds
    messenger,       \* the transport: topics created, processors registered
    created          \* what Create returned

factoryVars == <<args, sicf, container, messenger, created>>

\* an interceptors container called on its own
VARIABLES
    objects,         \* the (key, interceptor) pairs the container holds
    containerCalls   \* history: the last two calls made on it

containerVars == <<objects, containerCalls>>

\* the interceptors of one container at work on inbound messages
VARIABLES
    globalThrottler, \* icf.globalThrottler: the processings it counts as started
    invocations,     \* per interceptor invocation: its message and how far it got
    sinkPool,        \* the intercepted data written to the data pool
    notified         \* the hashes the pool notifier called its handlers with

interceptorVars == <<globalThrottler, invocations, sinkPool, notified>>

\* the output antiflood component built from the configuration
VARIABLES
    mainConfig,      \* the config.Config handed to NewP2POutputAntiFlood
    outputAntiflood, \* what NewP2POutputAntiFlood returned
    handlerCalls     \* history: the last call made on the handler, the setters called before

outputVars == <<mainConfig, outputAntiflood, handlerCalls>>

\* the constructor of the pools cleaner
VARIABLES
    tpcArgs,         \* the collaborators handed to NewTxsPoolsCleaner, nil or not
    tpcResult        \* what the call returned and what it set going

tpcVars == <<tpcArgs, tpcResult>>

\* the shard id checks of the intercepted blocks
VARIABLES
    checkArgs,       \* the list handed to checkMiniblocks or checkMetaShardInfo
    checkResult      \* the error the call returned

checkVars == <<checkArgs, checkResult>>

\* the validators provider and the goroutines that call it
VARIABLES
    cachedMap,       \* vp.cachedMap
    peerTrie,        \* the root hash of the peer accounts trie the statistics read
    callers,         \* per calling goroutine: where it is in GetLatestValidators, what it got
    lastSuccess      \* history: the map the last successful call built

providerVars == <<cachedMap, peerTrie, callers, lastSuccess>>

vars == <<quotaVars, newVars, cleanerVars, factoryVars, containerVars, interceptorVars, outputVars, tpcVars, checkVars, providerVars>>

\* ------------------------------------------------------------ quota type --
\* a cacher value: a *quota (isQuota) or a value of another type
quota(nr, sr, np, sp) ==
    [isQuota |-> TRUE,
     numReceivedMessages |-> nr, sizeReceivedMessages |-> sr,
     numProcessedMessages |-> np, sizeProcessedMessages |-> sp]

emptyQuota == quota(0, 0, 0, 0)

notQuota ==
    [isQuota |-> FALSE,
     numReceivedMessages |-> 0, sizeReceivedMessages |-> 0,
     numProcessedMessages |-> 0, sizeProcessedMessages |-> 0]

Add32(x, y) == (x + y) % Uint32Range
Add64(x, y) == (x + y) % Uint64Range

\* ------------------------------------------------------------- the cacher --
CacherKeys(c) == {c[i].key : i \in 1..Len(c)}

CacherHas(c, k) == k \in CacherKeys(c)

CacherIndex(c, k) == CHOOSE i \in 1..Len(c) : c[i].key = k

CacherWithout(c, k) == SelectSeq(c, LAMBDA e : e.key # k)

\* Get: the value under k; a hit makes k the most recently used entry
CacherGet(c, k) ==
    IF CacherHas(c, k)
    THEN [ok |-> TRUE, value |-> c[CacherIndex(c, k)].value,
          cacher |-> Append(CacherWithout(c, k), c[CacherIndex(c, k)])]
    ELSE [ok |-> FALSE, value |-> notQuota, cacher |-> c]

\* Put: insert or replace k as the most recently used entry; a new key put into
\* a full cacher evicts the least recently used entry
CacherPut(c, k, v) ==
    LET kept == CacherWithout(c, k)
        room == IF Len(kept) >= CacheSize THEN Tail(kept) ELSE kept
    IN Append(room, [key |-> k, value |-> v])

\* an update through the pointer held by the cacher: position is kept
CacherDeref(c, k, v) ==
    [i \in 1..Len(c) |-> IF c[i].key = k THEN [key |-> k, value |-> v] ELSE c[i]]

CacherClear == << >>

\* ----------------------------------------------------------- accumulate --
\* variant: the global message count is not checked
isGlobalQuotaReached_sizeOnly(g) ==
    g.sizeReceivedMessages > maxSize

isGlobalQuotaReached(g) ==
    \/ g.numReceivedMessages > maxMessages
    \/ g.sizeReceivedMessages > maxSize

\* variant: a peer exactly at its budget counts as over it
isPeerQuotaReached_atBudget(q) ==
    \/ q.numReceivedMessages >= maxMessagesPerPeer
    \/ q.sizeReceivedMessages >= maxSizePerPeer

\* variant: the peer's message count is not checked
isPeerQuotaReached_sizeOnly(q) ==
    q.sizeReceivedMessages > maxSizePerPeer

isPeerQuotaReached(q) ==
    \/ q.numReceivedMessages > maxMessagesPerPeer
    \/ q.sizeReceivedMessages > maxSizePerPeer

\* variant: the received bytes are not charged
received_countOnly(q, size) ==
    [q EXCEPT !.numReceivedMessages = Add32(@, 1)]

received(q, size) ==
    [q EXCEPT !.numReceivedMessages = Add32(@, 1),
              !.sizeReceivedMessages = Add64(@, size)]

processed(q, size) ==
    [q EXCEPT !.numProcessedMessages = Add32(@, 1),
              !.sizeProcessedMessages = Add64(@, size)]

\* variant: the first message is recorded as processed but not as received
putDefaultQuota_notReceived(c, identifier, size) ==
    CacherPut(c, identifier, quota(0, 0, initNumMessages, size))

putDefaultQuota(c, identifier, size) ==
    CacherPut(c, identifier, quota(initNumMessages, size, initNumMessages, size))

\* variant: accumulate works on a copy of the cached record and writes it back
\* only when the call is admitted
accumulate_onCopy(c, g, identifier, size) ==
    IF isGlobalQuotaReached(g)
    THEN [ret |-> FALSE, cacher |-> c]
    ELSE LET got == CacherGet(c, identifier) IN
         IF ~got.ok
         THEN [ret |-> TRUE, cacher |-> putDefaultQuota(c, identifier, size)]
         ELSE IF ~got.value.isQuota
         THEN [ret |-> TRUE, cacher |-> putDefaultQuota(got.cacher, identifier, size)]
         ELSE LET q == received(got.value, size) IN
              IF isPeerQuotaReached(q)
              THEN [ret |-> FALSE, cacher |-> got.cacher]
              ELSE [ret |-> TRUE,
                    cacher |-> CacherPut(got.cacher, identifier, processed(q, size))]

\* the result of qfp.accumulate: the returned flag and the cacher afterwards
accumulate(c, g, identifier, size) ==
    IF isGlobalQuotaReached(g)
    THEN [ret |-> FALSE, cacher |-> c]
    ELSE LET got == CacherGet(c, identifier) IN
         IF ~got.ok
         THEN [ret |-> TRUE, cacher |-> putDefaultQuota(c, identifier, size)]
         ELSE IF ~got.value.isQuota
         THEN [ret |-> TRUE, cacher |-> putDefaultQuota(got.cacher, identifier, size)]
         ELSE LET q == received(got.value, size) IN
              IF isPeerQuotaReached(q)
              THEN [ret |-> FALSE, cacher |-> CacherDeref(got.cacher, identifier, q)]
              ELSE [ret |-> TRUE,
                    cacher |-> CacherDeref(CacherPut(got.cacher, identifier, q),
                                           identifier, processed(q, size))]

\* the keys dropped from the cacher by a call
EvictedKeys(before, after) == CacherKeys(before) \ CacherKeys(after)

\* one entry of the call history: the call, whether the cacher held the
\* identifier when it was made, what it returned and which keys it evicted
Call(op, identifier, size, inCache, ret, evicted) ==
    [op |-> op, identifier |-> identifier, size |-> size, inCache |-> inCache,
     ret |-> ret, evicted |-> evicted]

\* ------------------------------------------------------------- operations --
\* variant: Accumulate charges the global record as AccumulateGlobal does
Accumulate_chargesGlobal(identifier, size) ==
    LET g == received(globalQuota, size)
        r == accumulate(cacher, g, identifier, size)
    IN
    /\ Len(calls) < MaxCalls
    /\ cacher' = r.cacher
    /\ globalQuota' = IF r.ret THEN processed(g, size) ELSE g
    /\ calls' = Append(calls, Call("Accumulate", identifier, size,
                                   CacherHas(cacher, identifier), r.ret,
                                   EvictedKeys(cacher, r.cacher)))
    /\ UNCHANGED <<statusHandlers, statusLog, afterReset>>

Accumulate(identifier, size) ==
    LET r == accumulate(cacher, globalQuota, identifier, size) IN
    /\ Len(calls) < MaxCalls
    /\ cacher' = r.cacher
    /\ calls' = Append(calls, Call("Accumulate", identifier, size,
                                   CacherHas(cacher, identifier), r.ret,
                                   EvictedKeys(cacher, r.cacher)))
    /\ UNCHANGED <<globalQuota, statusHandlers, statusLog, afterReset>>

\* variant: the global processed bytes are not charged
AccumulateGlobal_noProcessedSize(identifier, size) ==
    LET g == received(globalQuota, size)
        r == accumulate(cacher, g, identifier, size)
    IN
    /\ Len(calls) < MaxCalls
    /\ cacher' = r.cacher
    /\ globalQuota' = IF r.ret THEN [g EXCEPT !.numProcessedMessages = Add32(@, 1)] ELSE g
    /\ calls' = Append(calls, Call("AccumulateGlobal", identifier, size,
                                   CacherHas(cacher, identifier), r.ret,
                                   EvictedKeys(cacher, r.cacher)))
    /\ UNCHANGED <<statusHandlers, statusLog, afterReset>>

\* variant: the global processed counters are charged whatever accumulate returns
AccumulateGlobal_alwaysProcessed(identifier, size) ==
    LET g == received(globalQuota, size)
        r == accumulate(cacher, g, identifier, size)
    IN
    /\ Len(calls) < MaxCalls
    /\ cacher' = r.cacher
    /\ globalQuota' = processed(g, size)
    /\ calls' = Append(calls, Call("AccumulateGlobal", identifier, size,
                                   CacherHas(cacher, identifier), r.ret,
                                   EvictedKeys(cacher, r.cacher)))
    /\ UNCHANGED <<statusHandlers, statusLog, afterReset>>

AccumulateGlobal(identifier, size) ==
    LET g == received(globalQuota, size)
        r == accumulate(cacher, g, identifier, size)
    IN
    /\ Len(calls) < MaxCalls
    /\ cacher' = r.cacher
    /\ globalQuota' = IF r.ret THEN processed(g, size) ELSE g
    /\ calls' = Append(calls, Call("AccumulateGlobal", identifier, size,
                                   CacherHas(cacher, identifier), r.ret,
                                   EvictedKeys(cacher, r.cacher)))
    /\ UNCHANGED <<statusHandlers, statusLog, afterReset>>

resetStatusHandlers == << [call |-> "ResetStatistics"] >>

\* AddQuota for every key holding a *quota, then SetGlobalQuota
createStatistics(c, g) ==
    [i \in 1..Len(SelectSeq(c, LAMBDA e : e.value.isQuota)) |->
        [call |-> "AddQuota",
         identifier |-> SelectSeq(c, LAMBDA e : e.value.isQuota)[i].key,
         quota |-> SelectSeq(c, LAMBDA e : e.value.isQuota)[i].value]]
    \o << [call |-> "SetGlobalQuota", quota |-> g] >>

\* variant: the global record is kept across Reset
Reset_keepsGlobal ==
    /\ statusLog' = [h \in 1..statusHandlers |->
                       resetStatusHandlers \o createStatistics(cacher, globalQuota)]
    /\ cacher' = CacherClear
    /\ calls' = << >>
    /\ afterReset' = TRUE
    /\ UNCHANGED <<globalQuota, statusHandlers>>

\* variant: the cacher is cleared and the global record zeroed before the
\* statistics are created
Reset_clearsFirst ==
    /\ statusLog' = [h \in 1..statusHandlers |->
                       resetStatusHandlers \o createStatistics(CacherClear, emptyQuota)]
    /\ cacher' = CacherClear
    /\ globalQuota' = emptyQuota
    /\ calls' = << >>
    /\ afterReset' = TRUE
    /\ UNCHANGED statusHandlers

\* every status handler is sent ResetStatistics, the statistics of the cacher
\* and of the global record, then the cacher is cleared and the global record
\* replaced by a new one
Reset ==
    /\ statusLog' = [h \in 1..statusHandlers |->
                       resetStatusHandlers \o createStatistics(cacher, globalQuota)]
    /\ cacher' = CacherClear
    /\ globalQuota' = emptyQuota
    /\ calls' = << >>
    /\ afterReset' = TRUE
    /\ UNCHANGED statusHandlers

\* ------------------------------------------------------------ constructor --
NilEngine == [isNil |-> TRUE]

\* the constructor has not returned yet
NotCalled == [err |-> "not called", engine |-> NilEngine]

NewArgs(c, h, mmpp, mspp, mm, ms) ==
    [cacher |-> c, statusHandlers |-> h,
     maxMessagesPerPeer |-> mmpp, maxTotalSizePerPeer |-> mspp,
     maxMessages |-> mm, maxTotalSize |-> ms]

\* the arguments the engine of Spec was built with
EngineArgs ==
    NewArgs("ok", << >>, maxMessagesPerPeer, maxSizePerPeer, maxMessages, maxSize)

\* variant: the global byte maximum is not validated
NewQuotaFloodPreventer_noGlobalSizeCheck(a) ==
    IF a.cacher = "nil"
    THEN [err |-> "ErrNilCacher", engine |-> NilEngine]
    ELSE IF \E i \in 1..Len(a.statusHandlers) : a.statusHandlers[i] = "nil"
    THEN [err |-> "ErrNilQuotaStatusHandler", engine |-> NilEngine]
    ELSE IF a.maxMessagesPerPeer < minMessages
    THEN [err |-> "ErrInvalidValue", engine |-> NilEngine]
    ELSE IF a.maxTotalSizePerPeer < minTotalSize
    THEN [err |-> "ErrInvalidValue", engine |-> NilEngine]
    ELSE IF a.maxMessages < minMessages
    THEN [err |-> "ErrInvalidValue", engine |-> NilEngine]
    ELSE [err |-> "nil",
          engine |-> [isNil |-> FALSE,
                      statusHandlers |-> a.statusHandlers,
                      maxMessagesPerPeer |-> a.maxMessagesPerPeer,
                      maxSizePerPeer |-> a.maxTotalSizePerPeer,
                      maxMessages |-> a.maxMessages,
                      maxSize |-> a.maxTotalSize,
                      globalQuota |-> emptyQuota]]

\* the checks in the order of the code; every ErrInvalidValue is the same
\* wrapped error, only its text differs
NewQuotaFloodPreventer(a) ==
    IF a.cacher = "nil"
    THEN [err |-> "ErrNilCacher", engine |-> NilEngine]
    ELSE IF \E i \in 1..Len(a.statusHandlers) : a.statusHandlers[i] = "nil"
    THEN [err |-> "ErrNilQuotaStatusHandler", engine |-> NilEngine]
    ELSE IF a.maxMessagesPerPeer < minMessages
    THEN [err |-> "ErrInvalidValue", engine |-> NilEngine]
    ELSE IF a.maxTotalSizePerPeer < minTotalSize
    THEN [err |-> "ErrInvalidValue", engine |-> NilEngine]
    ELSE IF a.maxMessages < minMessages
    THEN [err |-> "ErrInvalidValue", engine |-> NilEngine]
    ELSE IF a.maxTotalSize < minTotalSize
    THEN [err |-> "ErrInvalidValue", engine |-> NilEngine]
    ELSE [err |-> "nil",
          engine |-> [isNil |-> FALSE,
                      statusHandlers |-> a.statusHandlers,
                      maxMessagesPerPeer |-> a.maxMessagesPerPeer,
                      maxSizePerPeer |-> a.maxTotalSizePerPeer,
                      maxMessages |-> a.maxMessages,
                      maxSize |-> a.maxTotalSize,
                      globalQuota |-> emptyQuota]]

\* one call of the constructor with the arguments drawn by InitNew
CallNewQuotaFloodPreventer ==
    /\ newResult = NotCalled
    /\ newResult' = NewQuotaFloodPreventer(newArgs)
    /\ UNCHANGED newArgs

\* ----------------------------------------------------------- pool cleaner --
blockTx == 0
rewardTx == 1
unsignedTx == 2

TxTypes == {blockTx, rewardTx, unsignedTx}

Hashes == {"h1", "h2"}
NilKey == "nil"

\* the shard coordinator: two shards and the metachain, this node in shard 1
NumberOfShards == 2
SelfId == 1
MetachainShardId == Uint32Range - 1

\* addresses are byte strings of the converter's length; ComputeId reads the
\* shard off the last byte
AddressLen == 1
emptyAddress == [i \in 1..AddressLen |-> 0]
ComputeId(address) == address[Len(address)] % NumberOfShards

\* values handed to the notifier callbacks
WrappedTransaction(snd, rcv) ==
    [kind |-> "WrappedTransaction", SenderShardID |-> snd, ReceiverShardID |-> rcv]
TransactionHandler(sndAddr, rcvAddr) ==
    [kind |-> "TransactionHandler", SndAddr |-> sndAddr, RcvAddr |-> rcvAddr]
OtherValue == [kind |-> "other"]

\* the sub-caches of a pool are keyed by the shard pair
ShardCacherIdentifier(snd, rcv) == <<snd, rcv>>

\* the sub-caches third parties put transactions into
StoreIds ==
    {ShardCacherIdentifier(SelfId, SelfId),
     ShardCacherIdentifier(MetachainShardId, SelfId)}

\* a handle on a sub-cache; nil when the pool has none for the identifier
NilStore == [isNil |-> TRUE]
ShardDataStore(p, txType, strCache) ==
    IF strCache \in DOMAIN p[txType]
    THEN [isNil |-> FALSE, txType |-> txType, id |-> strCache]
    ELSE NilStore

StoreGet(p, txStore, hash) == hash \in p[txStore.txType][txStore.id]
StoreRemove(p, txStore, hash) ==
    [p EXCEPT ![txStore.txType][txStore.id] = @ \ {hash}]
StorePut(p, txType, strCache, hash) ==
    [p EXCEPT ![txType] =
        IF strCache \in DOMAIN @
        THEN [@ EXCEPT ![strCache] = @ \cup {hash}]
        ELSE (strCache :> {hash}) @@ @]

txInfo(r, snd, rcv, txType, txStore) ==
    [round |-> r, senderShardID |-> snd, receiverShardID |-> rcv,
     txType |-> txType, txStore |-> txStore]

getTransactionPool(p, txType) ==
    IF txType = blockTx THEN p[blockTx]
    ELSE IF txType = rewardTx THEN p[rewardTx]
    ELSE IF txType = unsignedTx THEN p[unsignedTx]
    ELSE NilStore

getShardFromAddress(address) ==
    IF address = emptyAddress THEN SelfId ELSE ComputeId(address)

computeSenderAndReceiverShards(tx) ==
    <<getShardFromAddress(tx.SndAddr), getShardFromAddress(tx.RcvAddr)>>

\* variant: the record carries the receiver shard as sender and the sender
\* shard as receiver
processReceivedTx_swapsShards(m, p, r, key, snd, rcv, txType) ==
    IF key \in DOMAIN m THEN m
    ELSE IF getTransactionPool(p, txType) = NilStore THEN m
    ELSE LET strCache == ShardCacherIdentifier(snd, rcv)
             txStore == ShardDataStore(p, txType, strCache)
         IN IF txStore = NilStore THEN m
            ELSE [h \in DOMAIN m \cup {key} |->
                     IF h = key THEN txInfo(r, rcv, snd, txType, txStore) ELSE m[h]]

\* variant: a later callback replaces the record of a tracked hash
processReceivedTx_overwrites(m, p, r, key, snd, rcv, txType) ==
    IF getTransactionPool(p, txType) = NilStore THEN m
    ELSE LET strCache == ShardCacherIdentifier(snd, rcv)
             txStore == ShardDataStore(p, txType, strCache)
         IN IF txStore = NilStore THEN m
            ELSE [h \in DOMAIN m \cup {key} |->
                     IF h = key THEN txInfo(r, snd, rcv, txType, txStore) ELSE m[h]]

\* variant: the record is created without a sub-cache handle check
processReceivedTx_noStoreCheck(m, p, r, key, snd, rcv, txType) ==
    IF key \in DOMAIN m THEN m
    ELSE IF getTransactionPool(p, txType) = NilStore THEN m
    ELSE LET strCache == ShardCacherIdentifier(snd, rcv)
             txStore == [isNil |-> FALSE, txType |-> txType, id |-> strCache]
         IN [h \in DOMAIN m \cup {key} |->
                IF h = key THEN txInfo(r, snd, rcv, txType, txStore) ELSE m[h]]

\* the body run under mutMapTxsRounds: the pending map after the call
processReceivedTx(m, p, r, key, snd, rcv, txType) ==
    IF key \in DOMAIN m THEN m
    ELSE IF getTransactionPool(p, txType) = NilStore THEN m
    ELSE LET strCache == ShardCacherIdentifier(snd, rcv)
             txStore == ShardDataStore(p, txType, strCache)
         IN IF txStore = NilStore THEN m
            ELSE [h \in DOMAIN m \cup {key} |->
                     IF h = key THEN txInfo(r, snd, rcv, txType, txStore) ELSE m[h]]

\* a notifier callback as the pool invokes it; waited counts the records the
\* running pass has handled while the callback was in flight
Callback(txType, key, value) ==
    [txType |-> txType, key |-> key, value |-> value, waited |-> 0]

\* history: what the callbacks run for a hash since its record was last
\* deleted amount to.  A callback is dropped when it returns before the lock
\* (no key, a value of another type), ignored when the pool has no sub-cache
\* for the shard pair it computes, attributed otherwise
FiredAfter(cb, toLock, hasStore) ==
    IF cb.key \notin Hashes THEN fired
    ELSE [fired EXCEPT ![cb.key] =
            IF @ = "attributed" \/ (toLock /\ hasStore) THEN "attributed"
            ELSE IF toLock THEN "ignored"
            ELSE "dropped"]

\* the callback returns before the lock (lines 111-121) or runs
\* processReceivedTx under it; the lock is free only while the reaper sleeps
receivedBlockTx(cb) ==
    /\ cb \in inflight
    /\ cb.txType = blockTx
    /\ LET toLock == cb.key # NilKey /\ cb.value.kind = "WrappedTransaction"
           m == IF toLock
                THEN processReceivedTx(mapTxsRounds, pools, round, cb.key,
                                       cb.value.SenderShardID,
                                       cb.value.ReceiverShardID, blockTx)
                ELSE mapTxsRounds
       IN /\ toLock => reaper.pc = "sleep"
          /\ mapTxsRounds' = m
          /\ fired' = FiredAfter(cb, toLock,
                 ShardCacherIdentifier(cb.value.SenderShardID,
                                          cb.value.ReceiverShardID)
                        \in DOMAIN pools[blockTx])
    /\ inflight' = inflight \ {cb}
    /\ UNCHANGED <<pools, round, reaper, putsLeft, insertions, critical>>

\* variant: processReceivedTx runs without taking the lock
receivedRewardTx_noLock(cb) ==
    /\ cb \in inflight
    /\ cb.txType = rewardTx
    /\ LET toLock == cb.key # NilKey
           m == IF toLock
                THEN processReceivedTx(mapTxsRounds, pools, round, cb.key,
                                       MetachainShardId, SelfId, rewardTx)
                ELSE mapTxsRounds
       IN /\ mapTxsRounds' = m
          /\ fired' = FiredAfter(cb, toLock,
                 ShardCacherIdentifier(MetachainShardId, SelfId)
                        \in DOMAIN pools[rewardTx])
    /\ inflight' = inflight \ {cb}
    /\ UNCHANGED <<pools, round, reaper, putsLeft, insertions, critical>>

receivedRewardTx(cb) ==
    /\ cb \in inflight
    /\ cb.txType = rewardTx
    /\ LET toLock == cb.key # NilKey
           m == IF toLock
                THEN processReceivedTx(mapTxsRounds, pools, round, cb.key,
                                       MetachainShardId, SelfId, rewardTx)
                ELSE mapTxsRounds
       IN /\ toLock => reaper.pc = "sleep"
          /\ mapTxsRounds' = m
          /\ fired' = FiredAfter(cb, toLock,
                 ShardCacherIdentifier(MetachainShardId, SelfId)
                        \in DOMAIN pools[rewardTx])
    /\ inflight' = inflight \ {cb}
    /\ UNCHANGED <<pools, round, reaper, putsLeft, insertions, critical>>

receivedUnsignedTx(cb) ==
    /\ cb \in inflight
    /\ cb.txType = unsignedTx
    /\ LET toLock == cb.key # NilKey /\ cb.value.kind = "TransactionHandler"
           shards == computeSenderAndReceiverShards(cb.value)
           m == IF toLock
                THEN processReceivedTx(mapTxsRounds, pools, round, cb.key,
                                       shards[1], shards[2], unsignedTx)
                ELSE mapTxsRounds
       IN /\ toLock => reaper.pc = "sleep"
          /\ mapTxsRounds' = m
          /\ fired' = FiredAfter(cb, toLock,
                 ShardCacherIdentifier(shards[1], shards[2])
                        \in DOMAIN pools[unsignedTx])
    /\ inflight' = inflight \ {cb}
    /\ UNCHANGED <<pools, round, reaper, putsLeft, insertions, critical>>

Asleep == [pc |-> "sleep", todo |-> {}, ret |-> 0]

\* cleanTxsPoolsIfNeeded, lines 201-204: the lock is taken and the range over
\* the pending map starts
StartPass ==
    /\ reaper.pc = "sleep"
    /\ critical = {}
    /\ reaper' = [pc |-> "pass", todo |-> DOMAIN mapTxsRounds, ret |-> 0]
    /\ UNCHANGED <<pools, mapTxsRounds, round, inflight, fired, putsLeft, insertions, critical>>

\* the callbacks in flight stay at the lock while the pass handles a record
WaitOneRecord ==
    {[cb EXCEPT !.waited = @ + 1] : cb \in inflight}

\* variant: a stale transaction loses its record but stays in its sub-cache
VisitRecord_noRemove(hash) ==
    LET currTxInfo == mapTxsRounds[hash]
        ok == StoreGet(pools, currTxInfo.txStore, hash)
        roundDif == round - currTxInfo.round
        kept == ok /\ roundDif <= MaxRoundsToKeepUnprocessedTransactions
    IN
    /\ reaper.pc = "pass"
    /\ hash \in reaper.todo
    /\ pools' = pools
    /\ mapTxsRounds' = IF kept THEN mapTxsRounds
                       ELSE [h \in DOMAIN mapTxsRounds \ {hash} |-> mapTxsRounds[h]]
    /\ fired' = IF kept THEN fired ELSE [fired EXCEPT ![hash] = "no"]
    /\ reaper' = [reaper EXCEPT !.todo = @ \ {hash}]
    /\ inflight' = WaitOneRecord
    /\ UNCHANGED <<round, putsLeft, insertions, critical>>

\* variant: a record whose transaction left the sub-cache is kept
VisitRecord_keepsMissing(hash) ==
    LET currTxInfo == mapTxsRounds[hash]
        ok == StoreGet(pools, currTxInfo.txStore, hash)
        roundDif == round - currTxInfo.round
        kept == ~ok \/ roundDif <= MaxRoundsToKeepUnprocessedTransactions
    IN
    /\ reaper.pc = "pass"
    /\ hash \in reaper.todo
    /\ pools' = IF kept THEN pools ELSE StoreRemove(pools, currTxInfo.txStore, hash)
    /\ mapTxsRounds' = IF kept THEN mapTxsRounds
                       ELSE [h \in DOMAIN mapTxsRounds \ {hash} |-> mapTxsRounds[h]]
    /\ fired' = IF kept THEN fired ELSE [fired EXCEPT ![hash] = "no"]
    /\ reaper' = [reaper EXCEPT !.todo = @ \ {hash}]
    /\ inflight' = WaitOneRecord
    /\ UNCHANGED <<round, putsLeft, insertions, critical>>

\* variant: no age is ever past the limit
VisitRecord_neverStale(hash) ==
    LET currTxInfo == mapTxsRounds[hash]
        ok == StoreGet(pools, currTxInfo.txStore, hash)
        kept == ok
    IN
    /\ reaper.pc = "pass"
    /\ hash \in reaper.todo
    /\ pools' = pools
    /\ mapTxsRounds' = IF kept THEN mapTxsRounds
                       ELSE [h \in DOMAIN mapTxsRounds \ {hash} |-> mapTxsRounds[h]]
    /\ fired' = IF kept THEN fired ELSE [fired EXCEPT ![hash] = "no"]
    /\ reaper' = [reaper EXCEPT !.todo = @ \ {hash}]
    /\ inflight' = WaitOneRecord
    /\ UNCHANGED <<round, putsLeft, insertions, critical>>

\* variant: a record is stale as soon as its age reaches the limit
VisitRecord_staleAtThreshold(hash) ==
    LET currTxInfo == mapTxsRounds[hash]
        ok == StoreGet(pools, currTxInfo.txStore, hash)
        roundDif == round - currTxInfo.round
        kept == ok /\ roundDif < MaxRoundsToKeepUnprocessedTransactions
    IN
    /\ reaper.pc = "pass"
    /\ hash \in reaper.todo
    /\ pools' = IF ok /\ ~kept
                THEN StoreRemove(pools, currTxInfo.txStore, hash)
                ELSE pools
    /\ mapTxsRounds' = IF kept THEN mapTxsRounds
                       ELSE [h \in DOMAIN mapTxsRounds \ {hash} |-> mapTxsRounds[h]]
    /\ fired' = IF kept THEN fired ELSE [fired EXCEPT ![hash] = "no"]
    /\ reaper' = [reaper EXCEPT !.todo = @ \ {hash}]
    /\ inflight' = WaitOneRecord
    /\ UNCHANGED <<round, putsLeft, insertions, critical>>

\* one iteration of the range, lines 206-242
VisitRecord(hash) ==
    LET currTxInfo == mapTxsRounds[hash]
        ok == StoreGet(pools, currTxInfo.txStore, hash)
        roundDif == round - currTxInfo.round
        kept == ok /\ roundDif <= MaxRoundsToKeepUnprocessedTransactions
    IN
    /\ reaper.pc = "pass"
    /\ hash \in reaper.todo
    /\ pools' = IF ok /\ ~kept
                THEN StoreRemove(pools, currTxInfo.txStore, hash)
                ELSE pools
    /\ mapTxsRounds' = IF kept THEN mapTxsRounds
                       ELSE [h \in DOMAIN mapTxsRounds \ {hash} |-> mapTxsRounds[h]]
    /\ fired' = IF kept THEN fired ELSE [fired EXCEPT ![hash] = "no"]
    /\ reaper' = [reaper EXCEPT !.todo = @ \ {hash}]
    /\ inflight' = WaitOneRecord
    /\ UNCHANGED <<round, putsLeft, insertions, critical>>

\* the range is over: the size of the pending map is returned, the deferred
\* Unlock runs and the goroutine sleeps
EndPass ==
    /\ reaper.pc = "pass"
    /\ reaper.todo = {}
    /\ reaper' = [pc |-> "sleep", todo |-> {}, ret |-> Cardinality(DOMAIN mapTxsRounds)]
    /\ inflight' = {[cb EXCEPT !.waited = 0] : cb \in inflight}
    /\ UNCHANGED <<pools, mapTxsRounds, round, fired, putsLeft, insertions, critical>>

\* the values a third party stores in a sub-cache of each pool
PutValues(txType, strCache) ==
    IF txType = blockTx
    THEN {WrappedTransaction(strCache[1], strCache[2]), OtherValue}
    ELSE IF txType = rewardTx
    THEN {OtherValue}
    ELSE {TransactionHandler(a, <<1>>) : a \in {emptyAddress, <<2>>}}
         \cup {OtherValue}

\* history, kept by the specification that watches the puts: the put is
\* remembered with the round it happens in and with whether the cleaner holds
\* a record of the hash at that time
Inserted(txType, strCache, hash) ==
    {i \in insertions : <<i.txType, i.id, i.hash>> # <<txType, strCache, hash>>}
      \cup {[txType |-> txType, id |-> strCache, hash |-> hash,
              round |-> round, tracked |-> hash \in DOMAIN mapTxsRounds]}

\* a third party puts a transaction into a sub-cache; the pool invokes the
\* handler registered by NewTxsPoolsCleaner
PoolPut(txType, strCache, hash, value) ==
    /\ putsLeft > 0
    /\ round + MaxRoundsToKeepUnprocessedTransactions < MaxRound
    /\ strCache \in DOMAIN pools[txType] => hash \notin pools[txType][strCache]
    /\ Callback(txType, hash, value) \notin inflight
    /\ pools' = StorePut(pools, txType, strCache, hash)
    /\ inflight' = inflight \cup {Callback(txType, hash, value)}
    /\ putsLeft' = putsLeft - 1
    /\ UNCHANGED <<mapTxsRounds, round, reaper, fired>>

\* a third party (block processing) removes a transaction from a sub-cache
PoolRemove(txType, strCache, hash) ==
    /\ strCache \in DOMAIN pools[txType]
    /\ hash \in pools[txType][strCache]
    /\ pools' = [pools EXCEPT ![txType][strCache] = @ \ {hash}]
    /\ UNCHANGED <<mapTxsRounds, round, inflight, reaper, fired, putsLeft, insertions, critical>>

\* the round clock ticks; its last explored rounds are reached once the
\* callbacks in flight have returned, so every record can grow stale
AdvanceRound ==
    /\ round < MaxRound
    /\ inflight = {} \/ round + 1 + MaxRoundsToKeepUnprocessedTransactions < MaxRound
    /\ round' = round + 1
    /\ UNCHANGED <<pools, mapTxsRounds, inflight, reaper, fired, putsLeft, insertions, critical>>

\* the handlers step by step.  A callback reaches processReceivedTx when it
\* has a key and a value of its pool's type
ToLock(cb) ==
    /\ cb.key # NilKey
    /\ cb.txType = blockTx => cb.value.kind = "WrappedTransaction"
    /\ cb.txType = unsignedTx => cb.value.kind = "TransactionHandler"

\* the shard pair the handler hands to processReceivedTx
HandlerShards(cb) ==
    IF cb.txType = blockTx
    THEN <<cb.value.SenderShardID, cb.value.ReceiverShardID>>
    ELSE IF cb.txType = rewardTx
    THEN <<MetachainShardId, SelfId>>
    ELSE computeSenderAndReceiverShards(cb.value)

InCritical(cb, pc, ok) ==
    [txType |-> cb.txType, key |-> cb.key, value |-> cb.value, pc |-> pc, ok |-> ok]

Entered(cb) ==
    \E c \in critical : <<c.txType, c.key, c.value>> = <<cb.txType, cb.key, cb.value>>

\* variant: Lock returns although the mutex is held
Lock_noWait(cb) ==
    /\ cb \in inflight
    /\ ToLock(cb)
    /\ ~Entered(cb)
    /\ critical' = critical \cup {InCritical(cb, "lookup", FALSE)}
    /\ UNCHANGED <<pools, mapTxsRounds, round, inflight, reaper, fired, putsLeft,
                   insertions>>

\* line 166: Lock returns once neither the pass nor another callback holds
\* the mutex
Lock(cb) ==
    /\ cb \in inflight
    /\ ToLock(cb)
    /\ ~Entered(cb)
    /\ critical = {}
    /\ reaper.pc = "sleep"
    /\ critical' = critical \cup {InCritical(cb, "lookup", FALSE)}
    /\ UNCHANGED <<pools, mapTxsRounds, round, inflight, reaper, fired, putsLeft,
                   insertions>>

\* line 169: the lookup of the key in the pending map
LookUp(c) ==
    /\ c \in critical
    /\ c.pc = "lookup"
    /\ critical' = (critical \ {c})
                      \cup {[c EXCEPT !.pc = "write", !.ok = c.key \in DOMAIN mapTxsRounds]}
    /\ UNCHANGED <<pools, mapTxsRounds, round, inflight, reaper, fired, putsLeft,
                   insertions>>

\* lines 170-189 and the deferred Unlock: when the lookup found nothing and
\* the pool has the sub-cache, the record is written under the key
WriteAndUnlock(c) ==
    /\ c \in critical
    /\ c.pc = "write"
    /\ LET shards == HandlerShards(c)
           fresh == processReceivedTx(<< >>, pools, round, c.key,
                                      shards[1], shards[2], c.txType)
       IN /\ mapTxsRounds' =
                IF c.ok \/ fresh = << >> THEN mapTxsRounds
                ELSE [h \in DOMAIN mapTxsRounds \cup {c.key} |->
                         IF h = c.key THEN fresh[c.key] ELSE mapTxsRounds[h]]
          /\ fired' = FiredAfter(c, TRUE, fresh # << >>)
    /\ critical' = critical \ {c}
    /\ inflight' = {cb \in inflight :
                       <<cb.txType, cb.key, cb.value>> # <<c.txType, c.key, c.value>>}
    /\ UNCHANGED <<pools, round, reaper, putsLeft, insertions>>

\* the constructor.  Each collaborator is nil or not; a pools holder carries
\* its three pools
NilPoolsHolder == [isNil |-> TRUE, Transactions |-> FALSE,
                   RewardTransactions |-> FALSE, UnsignedTransactions |-> FALSE]
PoolsHolder(block, reward, unsigned) ==
    [isNil |-> FALSE, Transactions |-> block,
     RewardTransactions |-> reward, UnsignedTransactions |-> unsigned]

CleanerArgs(converter, dataPool, rounder, coordinator) ==
    [addressPubkeyConverter |-> converter, dataPool |-> dataPool,
     rounder |-> rounder, shardCoordinator |-> coordinator]

NoHandlers == [t \in TxTypes |-> 0]
NilCleaner == [isNil |-> TRUE, mapTxsRounds |-> << >>]
Constructed(err, tpc, handlers, goroutines) ==
    [called |-> TRUE, err |-> err, tpc |-> tpc,
     handlers |-> handlers, goroutines |-> goroutines]
NotConstructed ==
    [called |-> FALSE, err |-> "nil", tpc |-> NilCleaner,
     handlers |-> NoHandlers, goroutines |-> 0]

\* variant: the rounder is not checked
NewTxsPoolsCleaner_skipsRounder(a) ==
    IF ~a.addressPubkeyConverter
    THEN Constructed("ErrNilPubkeyConverter", NilCleaner, NoHandlers, 0)
    ELSE IF a.dataPool.isNil
    THEN Constructed("ErrNilPoolsHolder", NilCleaner, NoHandlers, 0)
    ELSE IF ~a.dataPool.Transactions
    THEN Constructed("ErrNilTransactionPool", NilCleaner, NoHandlers, 0)
    ELSE IF ~a.dataPool.RewardTransactions
    THEN Constructed("ErrNilRewardTxDataPool", NilCleaner, NoHandlers, 0)
    ELSE IF ~a.dataPool.UnsignedTransactions
    THEN Constructed("ErrNilUnsignedTxDataPool", NilCleaner, NoHandlers, 0)
    ELSE IF ~a.shardCoordinator
    THEN Constructed("ErrNilShardCoordinator", NilCleaner, NoHandlers, 0)
    ELSE Constructed("nil", [isNil |-> FALSE, mapTxsRounds |-> << >>],
                     [t \in TxTypes |-> 1], 1)

\* lines 51-100: the checks in their order; then the empty pending map, one
\* RegisterHandler per pool and one `go tpc.cleanTxsPools()`
NewTxsPoolsCleaner(a) ==
    IF ~a.addressPubkeyConverter
    THEN Constructed("ErrNilPubkeyConverter", NilCleaner, NoHandlers, 0)
    ELSE IF a.dataPool.isNil
    THEN Constructed("ErrNilPoolsHolder", NilCleaner, NoHandlers, 0)
    ELSE IF ~a.dataPool.Transactions
    THEN Constructed("ErrNilTransactionPool", NilCleaner, NoHandlers, 0)
    ELSE IF ~a.dataPool.RewardTransactions
    THEN Constructed("ErrNilRewardTxDataPool", NilCleaner, NoHandlers, 0)
    ELSE IF ~a.dataPool.UnsignedTransactions
    THEN Constructed("ErrNilUnsignedTxDataPool", NilCleaner, NoHandlers, 0)
    ELSE IF ~a.rounder
    THEN Constructed("ErrNilRounder", NilCleaner, NoHandlers, 0)
    ELSE IF ~a.shardCoordinator
    THEN Constructed("ErrNilShardCoordinator", NilCleaner, NoHandlers, 0)
    ELSE Constructed("nil", [isNil |-> FALSE, mapTxsRounds |-> << >>],
                     [t \in TxTypes |-> 1], 1)

CallNewTxsPoolsCleaner ==
    /\ ~tpcResult.called
    /\ tpcResult' = NewTxsPoolsCleaner(tpcArgs)
    /\ UNCHANGED tpcArgs

TpcIdle ==
    /\ tpcArgs = CleanerArgs(TRUE, PoolsHolder(TRUE, TRUE, TRUE), TRUE, TRUE)
    /\ tpcResult = NotConstructed

\* no cleaner in use: the state of its variables in the specifications of
\* the other components
CleanerIdle ==
    /\ pools = [t \in TxTypes |-> << >>]
    /\ mapTxsRounds = << >>
    /\ round = 0
    /\ inflight = {}
    /\ reaper = Asleep
    /\ fired = [h \in Hashes |-> "no"]
    /\ putsLeft = 0
    /\ insertions = {}
    /\ critical = {}

\* ------------------------------------------------- intercepted blocks --
\* shard ids tried: a shard, the first id past the shards, the metachain
ShardIds == {0, NumberOfShards, MetachainShardId}

MiniBlockHeader(snd, rcv) == [SenderShardID |-> snd, ReceiverShardID |-> rcv]
ShardData(shardID, headers) == [ShardID |-> shardID, ShardMiniBlockHeaders |-> headers]

\* a slice is nil or a sequence, possibly empty
NilSlice == [isNil |-> TRUE, items |-> << >>]
Slice(items) == [isNil |-> FALSE, items |-> items]

SlicesOf(S, n) ==
    {NilSlice} \cup {Slice(q) : q \in UNION {[1..k -> S] : k \in 0..n}}

\* a shard id is valid when it is one of the shards or the metachain
isWrongShardId(id) == id >= NumberOfShards /\ id # MetachainShardId

\* variant: the receiver shard is not looked at
checkMiniblocks_senderOnly(miniblocks) ==
    IF \E i \in DOMAIN miniblocks.items :
          isWrongShardId(miniblocks.items[i].SenderShardID)
    THEN "ErrInvalidShardId"
    ELSE "nil"

\* the loop over the miniblock headers: the first header with a wrong
\* sender or receiver shard ends it with ErrInvalidShardId
checkMiniblocks(miniblocks) ==
    IF \E i \in DOMAIN miniblocks.items :
          \/ isWrongShardId(miniblocks.items[i].SenderShardID)
          \/ isWrongShardId(miniblocks.items[i].ReceiverShardID)
    THEN "ErrInvalidShardId"
    ELSE "nil"

\* the loop over the shard data: its shard id, then its miniblock headers
checkMetaShardInfo(shardInfo) ==
    IF \E i \in DOMAIN shardInfo.items :
          \/ isWrongShardId(shardInfo.items[i].ShardID)
          \/ checkMiniblocks(shardInfo.items[i].ShardMiniBlockHeaders) # "nil"
    THEN "ErrInvalidShardId"
    ELSE "nil"

CheckArgs(function, list) == [function |-> function, list |-> list]

CallCheck ==
    /\ checkResult = "not called"
    /\ checkResult' = IF checkArgs.function = "checkMiniblocks"
                      THEN checkMiniblocks(checkArgs.list)
                      ELSE checkMetaShardInfo(checkArgs.list)
    /\ UNCHANGED checkArgs

CheckIdle ==
    /\ checkArgs = CheckArgs("checkMiniblocks", NilSlice)
    /\ checkResult = "not called"

\* ------------------------------------------------ validators provider --
Callers == {"g1", "g2"}
maxRating == 4

\* the validator infos per shard under a root hash: the public key and
\* rating of each validator
ValidatorInfo(publicKey, rating) == [PublicKey |-> publicKey, Rating |-> rating]
ValidatorsAt(rootHash) ==
    [shard \in 0..(rootHash - 1) |-> {ValidatorInfo(shard + 1, rootHash)}]

\* pubkeyConverter.Encode: the key written out as a string
Encode(publicKey) == IF publicKey = 1 THEN "01" ELSE "02"

\* lines 533-550: one response per validator under its encoded key, the
\* rating scaled to a percentage of maxRating
ValidatorApiResponse(info) == [Rating |-> (info.Rating * 100) \div maxRating]
mapToReturn(validators) ==
    LET infos == UNION {validators[shard] : shard \in DOMAIN validators}
    IN [strKey \in {Encode(i.PublicKey) : i \in infos} |->
           ValidatorApiResponse(CHOOSE i \in infos : Encode(i.PublicKey) = strKey)]

Caller(pc, latestHash, err, ret) ==
    [pc |-> pc, latestHash |-> latestHash, err |-> err, ret |-> ret]
Outside == {"idle", "returned"}

\* line 520: Lock returns once no other call holds mutCachedMap
LockCachedMap(g) ==
    /\ callers[g].pc \in Outside
    /\ \A other \in Callers : callers[other].pc \in Outside
    /\ callers' = [callers EXCEPT ![g] = Caller("rootHash", 0, "nil", << >>)]
    /\ UNCHANGED <<cachedMap, peerTrie, lastSuccess>>

\* lines 523-526: RootHash fails or gives the root of the trie; on failure
\* the cached map is returned and the deferred Unlock runs
RootHash(g, ok) ==
    /\ callers[g].pc = "rootHash"
    /\ callers' = [callers EXCEPT ![g] =
                      IF ok THEN Caller("validatorInfo", peerTrie, "nil", << >>)
                      ELSE Caller("returned", 0, "ErrRootHash", cachedMap)]
    /\ UNCHANGED <<cachedMap, peerTrie, lastSuccess>>

\* variant: a failed read returns an empty map
GetValidatorInfoForRootHash_emptyOnFailure(g, ok) ==
    LET built == mapToReturn(ValidatorsAt(callers[g].latestHash)) IN
    /\ callers[g].pc = "validatorInfo"
    /\ cachedMap' = IF ok THEN built ELSE cachedMap
    /\ lastSuccess' = IF ok THEN built ELSE lastSuccess
    /\ callers' = [callers EXCEPT ![g] =
                      Caller("returned", callers[g].latestHash,
                             IF ok THEN "nil" ELSE "ErrValidatorInfo",
                             IF ok THEN built ELSE << >>)]
    /\ UNCHANGED peerTrie

\* lines 528-554: GetValidatorInfoForRootHash fails and the cached map is
\* returned, or the map is built from the validators, stored as the cached
\* map and returned; the deferred Unlock runs
GetValidatorInfoForRootHash(g, ok) ==
    LET built == mapToReturn(ValidatorsAt(callers[g].latestHash)) IN
    /\ callers[g].pc = "validatorInfo"
    /\ cachedMap' = IF ok THEN built ELSE cachedMap
    /\ lastSuccess' = IF ok THEN built ELSE lastSuccess
    /\ callers' = [callers EXCEPT ![g] =
                      Caller("returned", callers[g].latestHash,
                             IF ok THEN "nil" ELSE "ErrValidatorInfo",
                             IF ok THEN built ELSE cachedMap)]
    /\ UNCHANGED peerTrie

\* a block is committed: the peer accounts trie gets its next root
CommitPeerTrie ==
    /\ peerTrie < MaxRootHash
    /\ peerTrie' = peerTrie + 1
    /\ UNCHANGED <<cachedMap, callers, lastSuccess>>

\* lines 507-515: the provider as NewValidatorsProvider returns it, nobody
\* calling yet
ProviderIdle ==
    /\ cachedMap = << >>
    /\ peerTrie = 0
    /\ callers = [g \in Callers |-> Caller("idle", 0, "nil", << >>)]
    /\ lastSuccess = << >>

\* ------------------------------------------ interceptors container factory --
\* the handles checkBaseParams receives, in the order of the call
BaseParams ==
    <<"ShardCoordinator", "Accounts", "Marshalizer", "Hasher", "Store",
      "DataPool", "Messenger", "MultiSigner", "NodesCoordinator", "BlackList",
      "AntifloodHandler">>

\* the handles the constructor checks itself
ShardParams ==
    <<"KeyGen", "SingleSigner", "AddrConverter", "TxFeeHandler",
      "BlockSignKeyGen", "BlockSingleSigner", "HeaderSigVerifier",
      "ValidityAttester", "EpochStartTrigger">>

Range(seq) == {seq[i] : i \in DOMAIN seq}

Collaborators == Range(BaseParams) \cup Range(ShardParams)

\* args.nil lists the handles that are nil
FactoryArgs(nilHandles, chainID, sizeCheckDelta) ==
    [nil |-> nilHandles, ChainID |-> chainID, SizeCheckDelta |-> sizeCheckDelta]

\* the size-checking wrapper around a marshalizer is an object of its own,
\* whatever it wraps
NewSizeCheckUnmarshalizer(a) ==
    [a EXCEPT !.nil = @ \ {"Marshalizer"}]

\* the first nil handle decides the error, one error per role
checkBaseParams(a) ==
    IF \A i \in DOMAIN BaseParams : BaseParams[i] \notin a.nil
    THEN "nil"
    ELSE LET first == CHOOSE i \in DOMAIN BaseParams :
                         /\ BaseParams[i] \in a.nil
                         /\ \A j \in 1..(i - 1) : BaseParams[j] \notin a.nil
         IN "ErrNil" \o BaseParams[first]

NilFactory == [isNil |-> TRUE]
NotBuilt == [err |-> "not called", factory |-> NilFactory]

Refused(err) == [err |-> err, factory |-> NilFactory]

\* variant: the block signing handles have errors of their own
NewShardInterceptorsContainerFactory_ownErrors(a) ==
    LET b == IF a.SizeCheckDelta > 0 THEN NewSizeCheckUnmarshalizer(a) ELSE a
        err == checkBaseParams(b)
    IN
    IF err # "nil" THEN Refused(err)
    ELSE IF "KeyGen" \in b.nil THEN Refused("ErrNilKeyGen")
    ELSE IF "SingleSigner" \in b.nil THEN Refused("ErrNilSingleSigner")
    ELSE IF "AddrConverter" \in b.nil THEN Refused("ErrNilAddressConverter")
    ELSE IF "TxFeeHandler" \in b.nil THEN Refused("ErrNilEconomicsFeeHandler")
    ELSE IF "BlockSignKeyGen" \in b.nil THEN Refused("ErrNilBlockSignKeyGen")
    ELSE IF "BlockSingleSigner" \in b.nil THEN Refused("ErrNilBlockSingleSigner")
    ELSE IF "HeaderSigVerifier" \in b.nil THEN Refused("ErrNilHeaderSigVerifier")
    ELSE IF Len(b.ChainID) = 0 THEN Refused("ErrInvalidChainID")
    ELSE IF "ValidityAttester" \in b.nil THEN Refused("ErrNilValidityAttester")
    ELSE IF "EpochStartTrigger" \in b.nil THEN Refused("ErrNilEpochStartTrigger")
    ELSE [err |-> "nil", factory |-> [isNil |-> FALSE, container |-> {}]]

\* the checks in the order of the code; the container is created empty once
\* they have passed (NewNumGoRoutineThrottler gets a positive constant)
NewShardInterceptorsContainerFactory(a) ==
    LET b == IF a.SizeCheckDelta > 0 THEN NewSizeCheckUnmarshalizer(a) ELSE a
        err == checkBaseParams(b)
    IN
    IF err # "nil" THEN Refused(err)
    ELSE IF "KeyGen" \in b.nil THEN Refused("ErrNilKeyGen")
    ELSE IF "SingleSigner" \in b.nil THEN Refused("ErrNilSingleSigner")
    ELSE IF "AddrConverter" \in b.nil THEN Refused("ErrNilAddressConverter")
    ELSE IF "TxFeeHandler" \in b.nil THEN Refused("ErrNilEconomicsFeeHandler")
    ELSE IF "BlockSignKeyGen" \in b.nil THEN Refused("ErrNilKeyGen")
    ELSE IF "BlockSingleSigner" \in b.nil THEN Refused("ErrNilSingleSigner")
    ELSE IF "HeaderSigVerifier" \in b.nil THEN Refused("ErrNilHeaderSigVerifier")
    ELSE IF Len(b.ChainID) = 0 THEN Refused("ErrInvalidChainID")
    ELSE IF "ValidityAttester" \in b.nil THEN Refused("ErrNilValidityAttester")
    ELSE IF "EpochStartTrigger" \in b.nil THEN Refused("ErrNilEpochStartTrigger")
    ELSE [err |-> "nil", factory |-> [isNil |-> FALSE, container |-> {}]]

NoMessenger == [topics |-> {}, processors |-> {}]
NilContainer == [isNil |-> TRUE]
\* the container Create hands out is the factory's own
Container(items) == [isNil |-> FALSE, items |-> items]

\* one call of the constructor with the arguments drawn by InitFactory
CallNewShardInterceptorsContainerFactory ==
    /\ sicf = NotBuilt
    /\ sicf' = NewShardInterceptorsContainerFactory(args)
    /\ UNCHANGED <<args, container, messenger, created>>

\* topics: a base name followed by the shard coordinator's communication
\* identifier towards the destination
CommunicationIdentifier(destShardID) == <<SelfId, destShardID>>
Topic(name, identifier) == [name |-> name, identifier |-> identifier]

Interceptor(topic) == [topic |-> topic]

\* what the transport can refuse while an interceptor is wired to its topic
Failure(topic, call) == [topic |-> topic, call |-> call]
NoFailure == Failure(Topic("none", << >>), "none")

NotCreated == [err |-> "not called", container |-> NilContainer, failure |-> NoFailure]

\* the state Create works on: the factory's container, the transport, the
\* error of the step that failed
Building(c, m, err) == [container |-> c, messenger |-> m, err |-> err]

\* an interceptor is built for the topic, the topic is created on the
\* transport and the interceptor registered as its processor
createOneInterceptor(st, topic, fail) ==
    IF st.err # "nil" THEN st
    ELSE IF fail = Failure(topic, "CreateTopic")
    THEN [st EXCEPT !.err = "ErrCreateTopic"]
    ELSE IF fail = Failure(topic, "RegisterMessageProcessor")
    THEN [st EXCEPT !.messenger.topics = @ \cup {topic},
                    !.err = "ErrRegisterMessageProcessor"]
    ELSE [st EXCEPT !.messenger.topics = @ \cup {topic},
                    !.messenger.processors = @ \cup {topic}]

RECURSIVE createInterceptors(_, _, _)
createInterceptors(st, topics, fail) ==
    IF topics = << >> THEN st
    ELSE createInterceptors(createOneInterceptor(st, Head(topics), fail),
                            Tail(topics), fail)

\* ------------------------------------------------- interceptors container --
\* the container holds (key, interceptor) pairs
NilInterceptor == Interceptor(Topic("none", << >>))

ContainerKeys(items) == {e.key : e \in items}

ContainerGet(items, key) ==
    IF key \in ContainerKeys(items)
    THEN [err |-> "nil",
          interceptor |-> (CHOOSE e \in items : e.key = key).interceptor]
    ELSE [err |-> "ErrInvalidContainerKey", interceptor |-> NilInterceptor]

\* variant: a key already held is not refused
ContainerAdd_noDuplicateCheck(items, key, interceptor) ==
    [err |-> "nil",
     items |-> items \cup {[key |-> key, interceptor |-> interceptor]}]

ContainerAdd(items, key, interceptor) ==
    IF key \in ContainerKeys(items)
    THEN [err |-> "ErrContainerKeyAlreadyExists", items |-> items]
    ELSE [err |-> "nil",
          items |-> items \cup {[key |-> key, interceptor |-> interceptor]}]

RECURSIVE ContainerAddMultiple(_, _, _)
\* the pairs are added one after the other; the first refusal ends the call
ContainerAddMultiple(items, keys, interceptors) ==
    IF keys = << >> THEN [err |-> "nil", items |-> items]
    ELSE LET r == ContainerAdd(items, Head(keys), Head(interceptors)) IN
         IF r.err # "nil" THEN r
         ELSE ContainerAddMultiple(r.items, Tail(keys), Tail(interceptors))

ContainerReplace(items, key, interceptor) ==
    [err |-> "nil",
     items |-> {e \in items : e.key # key}
               \cup {[key |-> key, interceptor |-> interceptor]}]

ContainerRemove(items, key) == {e \in items : e.key # key}

\* sicf.container.Add / sicf.container.AddMultiple with the interceptors
\* created for the keys
AddMultiple(st, topics) ==
    IF st.err # "nil" THEN st
    ELSE LET r == ContainerAddMultiple(st.container, topics,
                     [i \in DOMAIN topics |-> Interceptor(topics[i])])
         IN [st EXCEPT !.container = r.items, !.err = r.err]

\* a generation step: the interceptors are created one after the other, then
\* added to the container together
generate(st, topics, fail) ==
    AddMultiple(createInterceptors(st, topics, fail), topics)

ShardsAndMeta ==
    [i \in 1..NumberOfShards |-> i - 1] \o <<MetachainShardId>>
ShardsOnly == [i \in 1..NumberOfShards |-> i - 1]

TopicsTowards(name, dests) ==
    [i \in DOMAIN dests |-> Topic(name, CommunicationIdentifier(dests[i]))]

generateTxInterceptors(st, fail) ==
    generate(st, TopicsTowards("transactions", ShardsAndMeta), fail)

generateUnsignedTxsInterceptors(st, fail) ==
    generate(st, TopicsTowards("unsignedTransactions", ShardsOnly), fail)

\* variant: no interceptor towards the metachain
generateUnsignedTxsInterceptorsForShard_noMeta(st, fail) ==
    generateUnsignedTxsInterceptors(st, fail)

generateUnsignedTxsInterceptorsForShard(st, fail) ==
    generate(generateUnsignedTxsInterceptors(st, fail),
             TopicsTowards("unsignedTransactions", <<MetachainShardId>>), fail)

generateRewardTxInterceptor(st, fail) ==
    generate(st, TopicsTowards("rewardsTransactions", <<MetachainShardId>>), fail)

generateHeaderInterceptors(st, fail) ==
    generate(st, <<Topic("shardBlocks", <<SelfId>>)>>, fail)

generateMiniBlocksInterceptors(st, fail) ==
    generate(st, TopicsTowards("txBlockBodies", ShardsAndMeta), fail)

generateMetachainHeaderInterceptors(st, fail) ==
    generate(st, <<Topic("metachainBlocks", << >>)>>, fail)

generateTrieNodesInterceptors(st, fail) ==
    generate(st,
             TopicsTowards("accountTrieNodes", <<MetachainShardId>>)
             \o TopicsTowards("validatorTrieNodes", <<MetachainShardId>>),
             fail)

\* variant: the shard header step runs before the reward transaction step
CreateSteps_headersBeforeRewards(st, fail) ==
    generateTrieNodesInterceptors(
     generateMetachainHeaderInterceptors(
      generateMiniBlocksInterceptors(
       generateRewardTxInterceptor(
        generateHeaderInterceptors(
         generateUnsignedTxsInterceptorsForShard(
          generateTxInterceptors(st, fail), fail), fail), fail), fail), fail), fail)

\* the seven steps in the order of Create; a step that follows a failed one
\* is not run (generate leaves a failed state as it is)
CreateSteps(st, fail) ==
    generateTrieNodesInterceptors(
     generateMetachainHeaderInterceptors(
      generateMiniBlocksInterceptors(
       generateHeaderInterceptors(
        generateRewardTxInterceptor(
         generateUnsignedTxsInterceptorsForShard(
          generateTxInterceptors(st, fail), fail), fail), fail), fail), fail), fail)

AllTopics ==
    CreateSteps(Building({}, NoMessenger, "nil"), NoFailure).messenger.topics

Failures ==
    {NoFailure} \cup
    {Failure(t, call) : t \in AllTopics,
                        call \in {"CreateTopic", "RegisterMessageProcessor"}}

\* variant: a failed build is undone
Create_rollsBack(fail) ==
    LET st == CreateSteps(Building(container, messenger, "nil"), fail) IN
    /\ sicf.err = "nil"
    /\ created = NotCreated
    /\ container' = IF st.err = "nil" THEN st.container ELSE container
    /\ messenger' = IF st.err = "nil" THEN st.messenger ELSE messenger
    /\ created' = [err |-> st.err,
                   container |-> IF st.err = "nil" THEN Container(st.container)
                                 ELSE NilContainer,
                   failure |-> fail]
    /\ UNCHANGED <<args, sicf>>

\* Create on a factory that was built, the transport refusing at most one call
Create(fail) ==
    LET st == CreateSteps(Building(container, messenger, "nil"), fail) IN
    /\ sicf.err = "nil"
    /\ created = NotCreated
    /\ container' = st.container
    /\ messenger' = st.messenger
    /\ created' = [err |-> st.err,
                   container |-> IF st.err = "nil" THEN Container(st.container)
                                 ELSE NilContainer,
                   failure |-> fail]
    /\ UNCHANGED <<args, sicf>>

\* no factory in use: the state of its variables in the specifications of
\* the other components
FactoryIdle ==
    /\ args = FactoryArgs({}, <<1>>, 0)
    /\ sicf = NotBuilt
    /\ container = {}
    /\ messenger = NoMessenger
    /\ created = NotCreated

\* ------------------------------------ the container used on its own --
\* the keys and interceptors the container is called with
SomeTopics == {Topic("shardBlocks", <<SelfId>>), Topic("metachainBlocks", << >>)}
SomeInterceptors == {Interceptor(t) : t \in SomeTopics}

\* one entry of the container's call history
ContainerCall(op, keys, interceptors, before, err, got) ==
    [op |-> op, keys |-> keys, interceptors |-> interceptors,
     before |-> before, err |-> err, got |-> got]

\* the history keeps the last two calls
Remember(call) ==
    IF Len(containerCalls) < 2 THEN Append(containerCalls, call)
    ELSE <<containerCalls[2], call>>

Add(key, interceptor) ==
    LET r == ContainerAdd(objects, key, interceptor) IN
    /\ objects' = r.items
    /\ containerCalls' = Remember(ContainerCall("Add", <<key>>, <<interceptor>>,
                                                objects, r.err, NilInterceptor))

CallAddMultiple(keys, interceptors) ==
    LET r == ContainerAddMultiple(objects, keys, interceptors) IN
    /\ objects' = r.items
    /\ containerCalls' = Remember(ContainerCall("AddMultiple", keys, interceptors,
                                                objects, r.err, NilInterceptor))

Replace(key, interceptor) ==
    LET r == ContainerReplace(objects, key, interceptor) IN
    /\ objects' = r.items
    /\ containerCalls' = Remember(ContainerCall("Replace", <<key>>, <<interceptor>>,
                                                objects, r.err, NilInterceptor))

Remove(key) ==
    /\ objects' = ContainerRemove(objects, key)
    /\ containerCalls' = Remember(ContainerCall("Remove", <<key>>, << >>,
                                                objects, "nil", NilInterceptor))

Get(key) ==
    LET r == ContainerGet(objects, key) IN
    /\ objects' = objects
    /\ containerCalls' = Remember(ContainerCall("Get", <<key>>, << >>,
                                                objects, r.err, r.interceptor))

ContainerIdle ==
    /\ objects = {}
    /\ containerCalls = << >>

\* ------------------------------------------------------------ interceptor --
\* the chain id the factory hands to the intercepted data factory
ConfiguredChainID == FactoryArgs({}, <<1>>, 0).ChainID

\* an inbound payload, by what the validation steps find in it
Payload(hash, deserializable, blacklisted, chainID, wellFormed) ==
    [hash |-> hash, deserializable |-> deserializable,
     blacklisted |-> blacklisted, chainID |-> chainID, wellFormed |-> wellFormed]

NoPayload == Payload("none", FALSE, FALSE, << >>, FALSE)

\* a sound header and the payloads with one flaw each
Payloads ==
    {Payload("sound", TRUE, FALSE, ConfiguredChainID, TRUE),
     Payload("garbled", FALSE, FALSE, ConfiguredChainID, TRUE),
     Payload("listed", TRUE, TRUE, ConfiguredChainID, TRUE),
     Payload("foreign", TRUE, FALSE, <<2>>, TRUE),
     Payload("unsigned", TRUE, FALSE, ConfiguredChainID, FALSE)}

\* an invocation that has not been handed a message yet
Waiting ==
    [pc |-> "waiting", message |-> NoPayload, admitted |-> FALSE,
     acquired |-> FALSE, verdict |-> "none"]

\* 1. admission: the antiflood handler is asked; its answer is the engine's
AskAntiflood(i, message, answer) ==
    /\ invocations[i].pc = "waiting"
    /\ invocations' = [invocations EXCEPT ![i] =
          [@ EXCEPT !.message = message,
                    !.admitted = (answer = "nil"),
                    !.pc = IF answer = "nil" THEN "throttle" ELSE "done"]]
    /\ UNCHANGED <<globalThrottler, sinkPool, notified>>

\* 2. throttle: the non-blocking check; a busy throttle drops the message
CanProcess(i) ==
    /\ invocations[i].pc = "throttle"
    /\ invocations' = [invocations EXCEPT ![i].pc =
          IF globalThrottler < numGoRoutines THEN "start" ELSE "done"]
    /\ UNCHANGED <<globalThrottler, sinkPool, notified>>

StartProcessing(i) ==
    /\ invocations[i].pc = "start"
    /\ globalThrottler' = globalThrottler + 1
    /\ invocations' = [invocations EXCEPT ![i].pc = "validate",
                                          ![i].acquired = TRUE]
    /\ UNCHANGED <<sinkPool, notified>>

\* variant: the chain id of a header is not compared
Validity_anyChain(message) ==
    IF ~message.deserializable THEN "ErrWrongTypeAssertion"
    ELSE IF message.blacklisted THEN "blacklisted"
    ELSE IF ~message.wellFormed THEN "ErrInvalidStructure"
    ELSE "nil"

\* 3-6. deserialization, hash, blacklist and structural checks, in this order
Validity(message) ==
    IF ~message.deserializable THEN "ErrWrongTypeAssertion"
    ELSE IF message.blacklisted THEN "blacklisted"
    ELSE IF ~message.wellFormed THEN "ErrInvalidStructure"
    ELSE IF message.chainID # ConfiguredChainID THEN "ErrInvalidChainID"
    ELSE "nil"

Validate(i) ==
    /\ invocations[i].pc = "validate"
    /\ invocations' = [invocations EXCEPT
          ![i].verdict = Validity(invocations[i].message),
          ![i].pc = "release"]
    /\ UNCHANGED <<globalThrottler, sinkPool, notified>>

\* 7. the throttle is released; a message that failed a check ends here
EndProcessing(i) ==
    /\ invocations[i].pc = "release"
    /\ globalThrottler' = globalThrottler - 1
    /\ invocations' = [invocations EXCEPT ![i].pc =
          IF invocations[i].verdict = "nil" THEN "forward" ELSE "done"]
    /\ UNCHANGED <<sinkPool, notified>>

\* 8. the validated object goes to its sink pool under its hash, and the
\* pool calls its handlers
Forward(i) ==
    /\ invocations[i].pc = "forward"
    /\ sinkPool' = sinkPool \cup {[message |-> invocations[i].message, by |-> i]}
    /\ notified' = notified \cup {invocations[i].message.hash}
    /\ invocations' = [invocations EXCEPT ![i].pc = "done"]
    /\ UNCHANGED globalThrottler

InterceptorIdle ==
    /\ globalThrottler = 0
    /\ invocations = << >>
    /\ sinkPool = {}
    /\ notified = {}

\* ------------------------------------------------- disabled antiflood --
\* the part of config.Config the factory reads; Cache says whether
\* storageUnit.NewCache accepts the cache configuration
Config(enabled, cache, messages, size) ==
    [Enabled |-> enabled, Cache |-> cache,
     MessagesPerInterval |-> messages, TotalSizePerInterval |-> size]

NilHandler == [kind |-> "nil"]
NotAsked == [err |-> "not called", handler |-> NilHandler, caches |-> 0]

\* the enabled component: a cache, a quota flood preventer without status
\* handlers and with the largest global maxima, a nil topic flood preventer
initP2POutputAntiFlood(c) ==
    IF c.Cache # "valid"
    THEN [err |-> "ErrCache", handler |-> NilHandler, caches |-> 0]
    ELSE LET r == NewQuotaFloodPreventer(
                     NewArgs("ok", << >>, c.MessagesPerInterval,
                             c.TotalSizePerInterval,
                             Uint32Range - 1, Uint64Range - 1))
         IN IF r.err # "nil"
            THEN [err |-> r.err, handler |-> NilHandler, caches |-> 1]
            ELSE [err |-> "nil", handler |-> [kind |-> "p2pAntiflood"], caches |-> 1]

NewP2POutputAntiFlood(c) ==
    IF c.Enabled THEN initP2POutputAntiFlood(c)
    ELSE [err |-> "nil", handler |-> [kind |-> "disabled"], caches |-> 0]

CallNewP2POutputAntiFlood ==
    /\ outputAntiflood = NotAsked
    /\ outputAntiflood' = NewP2POutputAntiFlood(mainConfig)
    /\ UNCHANGED <<mainConfig, handlerCalls>>

\* one call of a method of the disabled handler and what it returned
HandlerCall(method, peer, topic, num, size, ret) ==
    [method |-> method, peer |-> peer, topic |-> topic, num |-> num,
     size |-> size, ret |-> ret]

NoCalls == [last |-> HandlerCall("none", "none", "none", 0, 0, "none"), setters |-> {}]

\* a method that sets something: it does nothing and returns nothing
Setter(call) ==
    /\ outputAntiflood.handler.kind = "disabled"
    /\ handlerCalls' = [last |-> call, setters |-> handlerCalls.setters \cup {call.method}]
    /\ UNCHANGED <<mainConfig, outputAntiflood>>

\* a method that answers
Answer(call) ==
    /\ outputAntiflood.handler.kind = "disabled"
    /\ handlerCalls' = [handlerCalls EXCEPT !.last = call]
    /\ UNCHANGED <<mainConfig, outputAntiflood>>

ResetForTopic(topic) ==
    Setter(HandlerCall("ResetForTopic", "none", topic, 0, 0, "none"))

SetMaxMessagesForTopic(topic, num) ==
    Setter(HandlerCall("SetMaxMessagesForTopic", "none", topic, num, 0, "none"))

\* variant: a message larger than any budget is refused
CanProcessMessage_checksSize(size, peer) ==
    Answer(HandlerCall("CanProcessMessage", peer, "none", 1, size,
                       IF size > maxSize THEN "ErrSystemBusy" ELSE "nil"))

CanProcessMessage(size, peer) ==
    Answer(HandlerCall("CanProcessMessage", peer, "none", 1, size, "nil"))

CanProcessMessagesOnTopic(peer, topic, num, size) ==
    Answer(HandlerCall("CanProcessMessagesOnTopic", peer, topic, num, size, "nil"))

ApplyConsensusSize(size) ==
    Setter(HandlerCall("ApplyConsensusSize", "none", "none", 0, size, "none"))

SetDebugger(debugger) ==
    Setter(HandlerCall("SetDebugger", debugger, "none", 0, 0, "nil"))

OutputIdle ==
    /\ mainConfig = Config(FALSE, "valid", 1, 1)
    /\ outputAntiflood = NotAsked
    /\ handlerCalls = NoCalls

\* --------------------------------------------------------- specification --
\* the engine right after NewQuotaFloodPreventer: the caller's cacher is empty
\* or holds a value that is not a *quota under some key
InitCachers == {<< >>} \cup {<< [key |-> k, value |-> notQuota] >> : k \in Peers}

Init ==
    /\ cacher \in InitCachers
    /\ globalQuota = emptyQuota
    /\ statusHandlers = 0
    /\ statusLog = << >>
    /\ calls = << >>
    /\ afterReset = FALSE
    /\ newArgs = EngineArgs
    /\ newResult = NewQuotaFloodPreventer(EngineArgs)
    /\ CleanerIdle
    /\ FactoryIdle
    /\ ContainerIdle
    /\ InterceptorIdle
    /\ OutputIdle
    /\ TpcIdle
    /\ CheckIdle
    /\ ProviderIdle

Next ==
    \/ /\ \E identifier \in Peers, size \in Sizes : Accumulate(identifier, size)
       /\ UNCHANGED <<newVars, cleanerVars, factoryVars, containerVars, interceptorVars, outputVars, tpcVars, checkVars, providerVars>>
    \/ /\ \E identifier \in Peers, size \in Sizes : AccumulateGlobal(identifier, size)
       /\ UNCHANGED <<newVars, cleanerVars, factoryVars, containerVars, interceptorVars, outputVars, tpcVars, checkVars, providerVars>>
    \/ /\ Reset
       /\ UNCHANGED <<newVars, cleanerVars, factoryVars, containerVars, interceptorVars, outputVars, tpcVars, checkVars, providerVars>>

Spec == Init /\ [][Next]_vars

\* the engine built with MaxHandlers status handlers and watched up to its
\* first Reset, over one call less than in Spec
InitStats ==
    /\ cacher \in InitCachers
    /\ globalQuota = emptyQuota
    /\ statusHandlers = MaxHandlers
    /\ statusLog = [h \in 1..MaxHandlers |-> << >>]
    /\ calls = << >>
    /\ afterReset = FALSE
    /\ newArgs = EngineArgs
    /\ newResult = NewQuotaFloodPreventer(EngineArgs)
    /\ CleanerIdle
    /\ FactoryIdle
    /\ ContainerIdle
    /\ InterceptorIdle
    /\ OutputIdle
    /\ TpcIdle
    /\ CheckIdle
    /\ ProviderIdle

NextStats ==
    \/ /\ ~afterReset
       /\ Len(calls) < MaxCalls - 1
       /\ \E identifier \in Peers, size \in Sizes : Accumulate(identifier, size)
       /\ UNCHANGED <<newVars, cleanerVars, factoryVars, containerVars, interceptorVars, outputVars, tpcVars, checkVars, providerVars>>
    \/ /\ ~afterReset
       /\ Len(calls) < MaxCalls - 1
       /\ \E identifier \in Peers, size \in Sizes : AccumulateGlobal(identifier, size)
       /\ UNCHANGED <<newVars, cleanerVars, factoryVars, containerVars, interceptorVars, outputVars, tpcVars, checkVars, providerVars>>
    \/ /\ Reset
       /\ UNCHANGED <<newVars, cleanerVars, factoryVars, containerVars, interceptorVars, outputVars, tpcVars, checkVars, providerVars>>

SpecStats == InitStats /\ [][NextStats]_vars

\* the engine of Spec called with sizes up to the largest uint64, over one
\* call less than in Spec
WrapSizes == {1, MaxMsgSize, Uint64Range - MaxMsgSize, Uint64Range - 1}

NextWrap ==
    \/ /\ Len(calls) < MaxCalls - 1
       /\ \E identifier \in Peers, size \in WrapSizes : Accumulate(identifier, size)
       /\ UNCHANGED <<newVars, cleanerVars, factoryVars, containerVars, interceptorVars, outputVars, tpcVars, checkVars, providerVars>>
    \/ /\ Len(calls) < MaxCalls - 1
       /\ \E identifier \in Peers, size \in WrapSizes : AccumulateGlobal(identifier, size)
       /\ UNCHANGED <<newVars, cleanerVars, factoryVars, containerVars, interceptorVars, outputVars, tpcVars, checkVars, providerVars>>
    \/ /\ Reset
       /\ UNCHANGED <<newVars, cleanerVars, factoryVars, containerVars, interceptorVars, outputVars, tpcVars, checkVars, providerVars>>

SpecWrap == Init /\ [][NextWrap]_vars

\* no engine in use: the state of the quota variables in the specifications
\* of the other components
QuotaIdle ==
    /\ cacher = << >>
    /\ globalQuota = emptyQuota
    /\ statusHandlers = 0
    /\ statusLog = << >>
    /\ calls = << >>
    /\ afterReset = FALSE

\* the constructor called once on arguments of every kind
HandlerLists ==
    UNION {[1..n -> {"nil", "ok"}] : n \in 0..MaxHandlers}

InitNew ==
    /\ QuotaIdle
    /\ newArgs \in {NewArgs(c, h, mmpp, mspp, mm, ms) :
                       c \in {"nil", "ok"}, h \in HandlerLists,
                       mmpp \in 0..MaxArg, mspp \in 0..MaxArg,
                       mm \in 0..MaxArg, ms \in 0..MaxArg}
    /\ newResult = NotCalled
    /\ CleanerIdle
    /\ FactoryIdle
    /\ ContainerIdle
    /\ InterceptorIdle
    /\ OutputIdle
    /\ TpcIdle
    /\ CheckIdle
    /\ ProviderIdle

NextNew == CallNewQuotaFloodPreventer /\ UNCHANGED <<quotaVars, cleanerVars, factoryVars, containerVars, interceptorVars, outputVars, tpcVars, checkVars, providerVars>>

SpecNew == InitNew /\ [][NextNew]_vars

NewIdle ==
    /\ newArgs = EngineArgs
    /\ newResult = NotCalled

\* the cleaner right after NewTxsPoolsCleaner: nothing tracked, the handlers
\* registered on the three pools, the reaper goroutine started
InitCleaner ==
    /\ QuotaIdle
    /\ NewIdle
    /\ FactoryIdle
    /\ ContainerIdle
    /\ InterceptorIdle
    /\ OutputIdle
    /\ TpcIdle
    /\ CheckIdle
    /\ ProviderIdle
    /\ pools = [t \in TxTypes |-> << >>]
    /\ mapTxsRounds = << >>
    /\ round = 0
    /\ inflight = {}
    /\ reaper = Asleep
    /\ fired = [h \in Hashes |-> "no"]
    /\ putsLeft = MaxPuts
    /\ insertions = {}
    /\ critical = {}

NextCleaner ==
    \/ /\ \E cb \in inflight : receivedBlockTx(cb)
       /\ UNCHANGED <<quotaVars, newVars, factoryVars, containerVars, interceptorVars, outputVars, tpcVars, checkVars, providerVars>>
    \/ /\ \E cb \in inflight : receivedRewardTx(cb)
       /\ UNCHANGED <<quotaVars, newVars, factoryVars, containerVars, interceptorVars, outputVars, tpcVars, checkVars, providerVars>>
    \/ /\ \E cb \in inflight : receivedUnsignedTx(cb)
       /\ UNCHANGED <<quotaVars, newVars, factoryVars, containerVars, interceptorVars, outputVars, tpcVars, checkVars, providerVars>>
    \/ /\ StartPass
       /\ UNCHANGED <<quotaVars, newVars, factoryVars, containerVars, interceptorVars, outputVars, tpcVars, checkVars, providerVars>>
    \/ /\ \E hash \in Hashes : VisitRecord(hash)
       /\ UNCHANGED <<quotaVars, newVars, factoryVars, containerVars, interceptorVars, outputVars, tpcVars, checkVars, providerVars>>
    \/ /\ EndPass
       /\ UNCHANGED <<quotaVars, newVars, factoryVars, containerVars, interceptorVars, outputVars, tpcVars, checkVars, providerVars>>
    \/ /\ \E txType \in TxTypes, strCache \in StoreIds, hash \in Hashes :
             \E value \in PutValues(txType, strCache) :
                PoolPut(txType, strCache, hash, value)
       /\ UNCHANGED <<quotaVars, newVars, factoryVars, containerVars, interceptorVars, outputVars, tpcVars, checkVars, providerVars, insertions, critical>>
    \/ /\ \E txType \in TxTypes, strCache \in StoreIds, hash \in Hashes :
             PoolRemove(txType, strCache, hash)
       /\ UNCHANGED <<quotaVars, newVars, factoryVars, containerVars, interceptorVars, outputVars, tpcVars, checkVars, providerVars>>
    \/ /\ AdvanceRound
       /\ UNCHANGED <<quotaVars, newVars, factoryVars, containerVars, interceptorVars, outputVars, tpcVars, checkVars, providerVars>>

SpecCleaner == InitCleaner /\ [][NextCleaner]_vars

\* the same cleaner with the history of the puts kept; third parties put and
\* take out one hash
PutHashes == {"h1"}

NextCleanerPuts ==
    \/ /\ \E cb \in inflight : receivedBlockTx(cb)
       /\ UNCHANGED <<quotaVars, newVars, factoryVars, containerVars, interceptorVars, outputVars, tpcVars, checkVars, providerVars>>
    \/ /\ \E cb \in inflight : receivedRewardTx(cb)
       /\ UNCHANGED <<quotaVars, newVars, factoryVars, containerVars, interceptorVars, outputVars, tpcVars, checkVars, providerVars>>
    \/ /\ \E cb \in inflight : receivedUnsignedTx(cb)
       /\ UNCHANGED <<quotaVars, newVars, factoryVars, containerVars, interceptorVars, outputVars, tpcVars, checkVars, providerVars>>
    \/ /\ StartPass
       /\ UNCHANGED <<quotaVars, newVars, factoryVars, containerVars, interceptorVars, outputVars, tpcVars, checkVars, providerVars>>
    \/ /\ \E hash \in Hashes : VisitRecord(hash)
       /\ UNCHANGED <<quotaVars, newVars, factoryVars, containerVars, interceptorVars, outputVars, tpcVars, checkVars, providerVars>>
    \/ /\ EndPass
       /\ UNCHANGED <<quotaVars, newVars, factoryVars, containerVars, interceptorVars, outputVars, tpcVars, checkVars, providerVars>>
    \/ /\ \E txType \in TxTypes, strCache \in StoreIds, hash \in PutHashes :
             \E value \in PutValues(txType, strCache) :
                /\ PoolPut(txType, strCache, hash, value)
                /\ insertions' = Inserted(txType, strCache, hash)
                /\ UNCHANGED critical
       /\ UNCHANGED <<quotaVars, newVars, factoryVars, containerVars, interceptorVars, outputVars, tpcVars, checkVars, providerVars>>
    \/ /\ \E txType \in TxTypes, strCache \in StoreIds, hash \in PutHashes :
             PoolRemove(txType, strCache, hash)
       /\ UNCHANGED <<quotaVars, newVars, factoryVars, containerVars, interceptorVars, outputVars, tpcVars, checkVars, providerVars>>
    \/ /\ AdvanceRound
       /\ UNCHANGED <<quotaVars, newVars, factoryVars, containerVars, interceptorVars, outputVars, tpcVars, checkVars, providerVars>>

SpecCleanerPuts == InitCleaner /\ [][NextCleanerPuts]_vars

\* the same cleaner with pools that also hand a transaction without a key
\* to the handlers
PutKeys == {"h1", NilKey}

NextCleanerKeys ==
    \/ /\ \E cb \in inflight : receivedBlockTx(cb)
       /\ UNCHANGED <<quotaVars, newVars, factoryVars, containerVars, interceptorVars, outputVars, tpcVars, checkVars, providerVars>>
    \/ /\ \E cb \in inflight : receivedRewardTx(cb)
       /\ UNCHANGED <<quotaVars, newVars, factoryVars, containerVars, interceptorVars, outputVars, tpcVars, checkVars, providerVars>>
    \/ /\ \E cb \in inflight : receivedUnsignedTx(cb)
       /\ UNCHANGED <<quotaVars, newVars, factoryVars, containerVars, interceptorVars, outputVars, tpcVars, checkVars, providerVars>>
    \/ /\ StartPass
       /\ UNCHANGED <<quotaVars, newVars, factoryVars, containerVars, interceptorVars, outputVars, tpcVars, checkVars, providerVars>>
    \/ /\ \E hash \in Hashes : VisitRecord(hash)
       /\ UNCHANGED <<quotaVars, newVars, factoryVars, containerVars, interceptorVars, outputVars, tpcVars, checkVars, providerVars>>
    \/ /\ EndPass
       /\ UNCHANGED <<quotaVars, newVars, factoryVars, containerVars, interceptorVars, outputVars, tpcVars, checkVars, providerVars>>
    \/ /\ \E txType \in TxTypes, strCache \in StoreIds, key \in PutKeys :
             \E value \in PutValues(txType, strCache) :
                PoolPut(txType, strCache, key, value)
       /\ UNCHANGED <<quotaVars, newVars, factoryVars, containerVars, interceptorVars, outputVars, tpcVars, checkVars, providerVars, insertions, critical>>
    \/ /\ \E txType \in TxTypes, strCache \in StoreIds, key \in PutKeys :
             PoolRemove(txType, strCache, key)
       /\ UNCHANGED <<quotaVars, newVars, factoryVars, containerVars, interceptorVars, outputVars, tpcVars, checkVars, providerVars>>
    \/ /\ AdvanceRound
       /\ UNCHANGED <<quotaVars, newVars, factoryVars, containerVars, interceptorVars, outputVars, tpcVars, checkVars, providerVars>>

SpecCleanerKeys == InitCleaner /\ [][NextCleanerKeys]_vars

\* the cleaner with the handlers run step by step against the pass: two
\* pools hand the same hash to their handlers
NextCleanerMutex ==
    \/ /\ \E cb \in inflight : Lock(cb)
       /\ UNCHANGED <<quotaVars, newVars, factoryVars, containerVars, interceptorVars, outputVars, tpcVars, checkVars, providerVars>>
    \/ /\ \E c \in critical : LookUp(c)
       /\ UNCHANGED <<quotaVars, newVars, factoryVars, containerVars, interceptorVars, outputVars, tpcVars, checkVars, providerVars>>
    \/ /\ \E c \in critical : WriteAndUnlock(c)
       /\ UNCHANGED <<quotaVars, newVars, factoryVars, containerVars, interceptorVars, outputVars, tpcVars, checkVars, providerVars>>
    \/ /\ StartPass
       /\ UNCHANGED <<quotaVars, newVars, factoryVars, containerVars, interceptorVars, outputVars, tpcVars, checkVars, providerVars>>
    \/ /\ \E hash \in Hashes : VisitRecord(hash)
       /\ UNCHANGED <<quotaVars, newVars, factoryVars, containerVars, interceptorVars, outputVars, tpcVars, checkVars, providerVars>>
    \/ /\ EndPass
       /\ UNCHANGED <<quotaVars, newVars, factoryVars, containerVars, interceptorVars, outputVars, tpcVars, checkVars, providerVars>>
    \/ /\ \E txType \in TxTypes, strCache \in StoreIds, hash \in Hashes :
             \E value \in PutValues(txType, strCache) :
                /\ ToLock(Callback(txType, hash, value))
                /\ PoolPut(txType, strCache, hash, value)
       /\ UNCHANGED <<quotaVars, newVars, factoryVars, containerVars, interceptorVars, outputVars, tpcVars, checkVars, providerVars, insertions, critical>>
    \/ /\ AdvanceRound
       /\ UNCHANGED <<quotaVars, newVars, factoryVars, containerVars, interceptorVars, outputVars, tpcVars, checkVars, providerVars>>

SpecCleanerMutex == InitCleaner /\ [][NextCleanerMutex]_vars

\* the constructor of the cleaner called with every combination of nil
\* collaborators
InitNewCleaner ==
    /\ QuotaIdle
    /\ NewIdle
    /\ CleanerIdle
    /\ FactoryIdle
    /\ ContainerIdle
    /\ InterceptorIdle
    /\ OutputIdle
    /\ CheckIdle
    /\ ProviderIdle
    /\ tpcArgs \in {CleanerArgs(c, d, r, s) :
                       c \in BOOLEAN,
                       d \in {NilPoolsHolder}
                               \cup {PoolsHolder(b, w, u) : b \in BOOLEAN, w \in BOOLEAN, u \in BOOLEAN},
                       r \in BOOLEAN, s \in BOOLEAN}
    /\ tpcResult = NotConstructed

NextNewCleaner ==
    /\ CallNewTxsPoolsCleaner
    /\ UNCHANGED <<quotaVars, newVars, cleanerVars, factoryVars, containerVars, interceptorVars, outputVars, checkVars, providerVars>>

SpecNewCleaner == InitNewCleaner /\ [][NextNewCleaner]_vars

\* the shard id checks called with every short list of headers and of shard
\* data
InitCheck ==
    /\ QuotaIdle
    /\ NewIdle
    /\ CleanerIdle
    /\ FactoryIdle
    /\ ContainerIdle
    /\ InterceptorIdle
    /\ OutputIdle
    /\ TpcIdle
    /\ ProviderIdle
    /\ LET headers == {MiniBlockHeader(s, r) : s \in ShardIds, r \in ShardIds}
           data == {ShardData(d, h) : d \in ShardIds, h \in SlicesOf(headers, 1)}
       IN checkArgs \in
             {CheckArgs("checkMiniblocks", l) : l \in SlicesOf(headers, MaxHeaders)}
             \cup {CheckArgs("checkMetaShardInfo", l) : l \in SlicesOf(data, MaxHeaders)}
    /\ checkResult = "not called"

NextCheck ==
    /\ CallCheck
    /\ UNCHANGED <<quotaVars, newVars, cleanerVars, factoryVars, containerVars, interceptorVars, outputVars, tpcVars, providerVars>>

SpecCheck == InitCheck /\ [][NextCheck]_vars

\* the validators provider called by two goroutines while blocks are
\* committed and reads of the trie fail now and then
InitProvider ==
    /\ QuotaIdle
    /\ NewIdle
    /\ CleanerIdle
    /\ FactoryIdle
    /\ ContainerIdle
    /\ InterceptorIdle
    /\ OutputIdle
    /\ TpcIdle
    /\ CheckIdle
    /\ ProviderIdle

NextProvider ==
    \/ /\ \E g \in Callers : LockCachedMap(g)
       /\ UNCHANGED <<quotaVars, newVars, cleanerVars, factoryVars, containerVars, interceptorVars, outputVars, tpcVars, checkVars>>
    \/ /\ \E g \in Callers, ok \in BOOLEAN : RootHash(g, ok)
       /\ UNCHANGED <<quotaVars, newVars, cleanerVars, factoryVars, containerVars, interceptorVars, outputVars, tpcVars, checkVars>>
    \/ /\ \E g \in Callers, ok \in BOOLEAN : GetValidatorInfoForRootHash(g, ok)
       /\ UNCHANGED <<quotaVars, newVars, cleanerVars, factoryVars, containerVars, interceptorVars, outputVars, tpcVars, checkVars>>
    \/ /\ CommitPeerTrie
       /\ UNCHANGED <<quotaVars, newVars, cleanerVars, factoryVars, containerVars, interceptorVars, outputVars, tpcVars, checkVars>>

SpecProvider == InitProvider /\ [][NextProvider]_vars

\* the same cleaner watched over one put, with the scheduling the code rests
\* on: the cleanTxsPools goroutine loops for ever (sleep, pass, sleep, ...),
\* the round clock keeps ticking, and a callback at the mutex gets it in the
\* end, the reaper sleeping between two passes
InitCleanerFair ==
    /\ QuotaIdle
    /\ NewIdle
    /\ FactoryIdle
    /\ ContainerIdle
    /\ InterceptorIdle
    /\ OutputIdle
    /\ TpcIdle
    /\ CheckIdle
    /\ ProviderIdle
    /\ pools = [t \in TxTypes |-> << >>]
    /\ mapTxsRounds = << >>
    /\ round = 0
    /\ inflight = {}
    /\ reaper = Asleep
    /\ fired = [h \in Hashes |-> "no"]
    /\ putsLeft = MaxPuts - 1
    /\ insertions = {}
    /\ critical = {}

CleanerFairness ==
    /\ WF_cleanerVars(StartPass)
    /\ WF_cleanerVars(\E hash \in Hashes : VisitRecord(hash))
    /\ WF_cleanerVars(EndPass)
    /\ WF_cleanerVars(AdvanceRound)
    /\ SF_cleanerVars(\E cb \in inflight : receivedBlockTx(cb))
    /\ SF_cleanerVars(\E cb \in inflight : receivedRewardTx(cb))
    /\ SF_cleanerVars(\E cb \in inflight : receivedUnsignedTx(cb))

SpecCleanerFair == InitCleanerFair /\ [][NextCleaner]_vars /\ CleanerFairness

\* the cleaner's locking watched on its own: one more put, no third-party
\* removal and a round clock standing still
InitCleanerLock ==
    /\ QuotaIdle
    /\ NewIdle
    /\ FactoryIdle
    /\ ContainerIdle
    /\ InterceptorIdle
    /\ OutputIdle
    /\ TpcIdle
    /\ CheckIdle
    /\ ProviderIdle
    /\ pools = [t \in TxTypes |-> << >>]
    /\ mapTxsRounds = << >>
    /\ round = 0
    /\ inflight = {}
    /\ reaper = Asleep
    /\ fired = [h \in Hashes |-> "no"]
    /\ putsLeft = MaxPuts + 1
    /\ insertions = {}
    /\ critical = {}

NextCleanerLock ==
    \/ /\ \E cb \in inflight : receivedBlockTx(cb)
       /\ UNCHANGED <<quotaVars, newVars, factoryVars, containerVars, interceptorVars, outputVars, tpcVars, checkVars, providerVars>>
    \/ /\ \E cb \in inflight : receivedRewardTx(cb)
       /\ UNCHANGED <<quotaVars, newVars, factoryVars, containerVars, interceptorVars, outputVars, tpcVars, checkVars, providerVars>>
    \/ /\ \E cb \in inflight : receivedUnsignedTx(cb)
       /\ UNCHANGED <<quotaVars, newVars, factoryVars, containerVars, interceptorVars, outputVars, tpcVars, checkVars, providerVars>>
    \/ /\ StartPass
       /\ UNCHANGED <<quotaVars, newVars, factoryVars, containerVars, interceptorVars, outputVars, tpcVars, checkVars, providerVars>>
    \/ /\ \E hash \in Hashes : VisitRecord(hash)
       /\ UNCHANGED <<quotaVars, newVars, factoryVars, containerVars, interceptorVars, outputVars, tpcVars, checkVars, providerVars>>
    \/ /\ EndPass
       /\ UNCHANGED <<quotaVars, newVars, factoryVars, containerVars, interceptorVars, outputVars, tpcVars, checkVars, providerVars>>
    \/ /\ \E txType \in TxTypes, strCache \in StoreIds, hash \in Hashes :
             \E value \in PutValues(txType, strCache) :
                PoolPut(txType, strCache, hash, value)
       /\ UNCHANGED <<quotaVars, newVars, factoryVars, containerVars, interceptorVars, outputVars, tpcVars, checkVars, providerVars, insertions, critical>>

SpecCleanerLock == InitCleanerLock /\ [][NextCleanerLock]_vars


\* the factory built once from arguments of every kind: up to MaxNilArgs nil
\* handles, an empty or non-empty chain id, size checking off or on
NilHandleSets == {n \in SUBSET Collaborators : Cardinality(n) <= MaxNilArgs}

InitFactory ==
    /\ QuotaIdle
    /\ NewIdle
    /\ CleanerIdle
    /\ ContainerIdle
    /\ InterceptorIdle
    /\ OutputIdle
    /\ TpcIdle
    /\ CheckIdle
    /\ ProviderIdle
    /\ args \in {FactoryArgs(n, c, d) :
                    n \in NilHandleSets, c \in {<< >>, <<1>>}, d \in {0, 1}}
    /\ sicf = NotBuilt
    /\ container = {}
    /\ messenger = NoMessenger
    /\ created = NotCreated

NextFactory ==
    \/ /\ CallNewShardInterceptorsContainerFactory
       /\ UNCHANGED <<quotaVars, newVars, cleanerVars, containerVars, interceptorVars, outputVars, tpcVars, checkVars, providerVars>>
    \/ /\ \E fail \in Failures : Create(fail)
       /\ UNCHANGED <<quotaVars, newVars, cleanerVars, containerVars, interceptorVars, outputVars, tpcVars, checkVars, providerVars>>

SpecFactory == InitFactory /\ [][NextFactory]_vars

\* a new container called in every way
InitContainer ==
    /\ QuotaIdle
    /\ NewIdle
    /\ CleanerIdle
    /\ FactoryIdle
    /\ InterceptorIdle
    /\ OutputIdle
    /\ TpcIdle
    /\ CheckIdle
    /\ ProviderIdle
    /\ objects = {}
    /\ containerCalls = << >>

NextContainer ==
    \/ /\ \E key \in SomeTopics, interceptor \in SomeInterceptors :
             Add(key, interceptor)
       /\ UNCHANGED <<quotaVars, newVars, cleanerVars, factoryVars, interceptorVars, outputVars, tpcVars, checkVars, providerVars>>
    \/ /\ \E n \in 0..MaxKeys :
             \E keys \in [1..n -> SomeTopics],
                interceptors \in [1..n -> SomeInterceptors] :
                CallAddMultiple(keys, interceptors)
       /\ UNCHANGED <<quotaVars, newVars, cleanerVars, factoryVars, interceptorVars, outputVars, tpcVars, checkVars, providerVars>>
    \/ /\ \E key \in SomeTopics, interceptor \in SomeInterceptors :
             Replace(key, interceptor)
       /\ UNCHANGED <<quotaVars, newVars, cleanerVars, factoryVars, interceptorVars, outputVars, tpcVars, checkVars, providerVars>>
    \/ /\ \E key \in SomeTopics : Remove(key)
       /\ UNCHANGED <<quotaVars, newVars, cleanerVars, factoryVars, interceptorVars, outputVars, tpcVars, checkVars, providerVars>>
    \/ /\ \E key \in SomeTopics : Get(key)
       /\ UNCHANGED <<quotaVars, newVars, cleanerVars, factoryVars, interceptorVars, outputVars, tpcVars, checkVars, providerVars>>

SpecContainer == InitContainer /\ [][NextContainer]_vars

\* MaxInvocations messages delivered to the interceptors of one container,
\* each handled by a goroutine of its own
InitInterceptor ==
    /\ QuotaIdle
    /\ NewIdle
    /\ CleanerIdle
    /\ FactoryIdle
    /\ ContainerIdle
    /\ OutputIdle
    /\ TpcIdle
    /\ CheckIdle
    /\ ProviderIdle
    /\ globalThrottler = 0
    /\ invocations = [i \in 1..MaxInvocations |-> Waiting]
    /\ sinkPool = {}
    /\ notified = {}

NextInterceptor ==
    \/ /\ \E i \in DOMAIN invocations, message \in Payloads,
             answer \in {"nil", "ErrSystemBusy"} :
             AskAntiflood(i, message, answer)
       /\ UNCHANGED <<quotaVars, newVars, cleanerVars, factoryVars, containerVars, outputVars, tpcVars, checkVars, providerVars>>
    \/ /\ \E i \in DOMAIN invocations : CanProcess(i)
       /\ UNCHANGED <<quotaVars, newVars, cleanerVars, factoryVars, containerVars, outputVars, tpcVars, checkVars, providerVars>>
    \/ /\ \E i \in DOMAIN invocations : StartProcessing(i)
       /\ UNCHANGED <<quotaVars, newVars, cleanerVars, factoryVars, containerVars, outputVars, tpcVars, checkVars, providerVars>>
    \/ /\ \E i \in DOMAIN invocations : Validate(i)
       /\ UNCHANGED <<quotaVars, newVars, cleanerVars, factoryVars, containerVars, outputVars, tpcVars, checkVars, providerVars>>
    \/ /\ \E i \in DOMAIN invocations : EndProcessing(i)
       /\ UNCHANGED <<quotaVars, newVars, cleanerVars, factoryVars, containerVars, outputVars, tpcVars, checkVars, providerVars>>
    \/ /\ \E i \in DOMAIN invocations : Forward(i)
       /\ UNCHANGED <<quotaVars, newVars, cleanerVars, factoryVars, containerVars, outputVars, tpcVars, checkVars, providerVars>>

SpecInterceptor == InitInterceptor /\ [][NextInterceptor]_vars

\* the factory called once on a configuration of every kind, and the handler
\* it returns for a disabled antiflood called in every way
Topics == {"transactions", "shardBlocks"}
Counts == {0, 1, Uint32Range - 1}

InitOutput ==
    /\ QuotaIdle
    /\ NewIdle
    /\ CleanerIdle
    /\ FactoryIdle
    /\ ContainerIdle
    /\ InterceptorIdle
    /\ TpcIdle
    /\ CheckIdle
    /\ ProviderIdle
    /\ mainConfig \in {Config(e, c, m, z) : e \in BOOLEAN, c \in {"valid", "invalid"},
                                          m \in 0..MaxArg, z \in 0..MaxArg}
    /\ outputAntiflood = NotAsked
    /\ handlerCalls = NoCalls

NextOutput ==
    \/ /\ CallNewP2POutputAntiFlood
       /\ UNCHANGED <<quotaVars, newVars, cleanerVars, factoryVars, containerVars, interceptorVars, tpcVars, checkVars, providerVars>>
    \/ /\ \E topic \in Topics : ResetForTopic(topic)
       /\ UNCHANGED <<quotaVars, newVars, cleanerVars, factoryVars, containerVars, interceptorVars, tpcVars, checkVars, providerVars>>
    \/ /\ \E topic \in Topics, num \in Counts : SetMaxMessagesForTopic(topic, num)
       /\ UNCHANGED <<quotaVars, newVars, cleanerVars, factoryVars, containerVars, interceptorVars, tpcVars, checkVars, providerVars>>
    \/ /\ \E size \in Sizes \cup {Uint64Range - 1}, peer \in Peers :
             CanProcessMessage(size, peer)
       /\ UNCHANGED <<quotaVars, newVars, cleanerVars, factoryVars, containerVars, interceptorVars, tpcVars, checkVars, providerVars>>
    \/ /\ \E peer \in Peers, topic \in Topics, num \in Counts,
             size \in Sizes \cup {Uint64Range - 1} :
             CanProcessMessagesOnTopic(peer, topic, num, size)
       /\ UNCHANGED <<quotaVars, newVars, cleanerVars, factoryVars, containerVars, interceptorVars, tpcVars, checkVars, providerVars>>
    \/ /\ \E size \in 0..MaxArg : ApplyConsensusSize(size)
       /\ UNCHANGED <<quotaVars, newVars, cleanerVars, factoryVars, containerVars, interceptorVars, tpcVars, checkVars, providerVars>>
    \/ /\ \E debugger \in {"nil", "ok"} : SetDebugger(debugger)
       /\ UNCHANGED <<quotaVars, newVars, cleanerVars, factoryVars, containerVars, interceptorVars, tpcVars, checkVars, providerVars>>

SpecOutput == InitOutput /\ [][NextOutput]_vars

\* ------------------------------------------------------ history operators --
Idx == 1..Len(calls)

IsAccumulate(i, p) == calls[i].op = "Accumulate" /\ calls[i].identifier = p

RECURSIVE SizeSum(_)
\* the byte total of the calls at the positions I of the history
SizeSum(I) ==
    IF I = {} THEN 0
    ELSE LET i == CHOOSE x \in I : TRUE IN calls[i].size + SizeSum(I \ {i})

\* p's record was evicted by a call strictly between positions i and j
EvictedBetween(p, i, j) == \E k \in (i + 1)..(j - 1) : p \in calls[k].evicted

\* the AccumulateGlobal calls made before position j
GlobalCallsBefore(j) == {i \in 1..(j - 1) : calls[i].op = "AccumulateGlobal"}

\* the global budget was not exceeded when the call at position j was made
GlobalBudgetLeftAt(j) ==
    /\ Cardinality(GlobalCallsBefore(j)) <= maxMessages
    /\ SizeSum(GlobalCallsBefore(j)) <= maxSize

\* the *quota held for p, emptyQuota when the cacher holds none
QuotaOf(c, p) ==
    IF CacherHas(c, p) /\ c[CacherIndex(c, p)].value.isQuota
    THEN c[CacherIndex(c, p)].value
    ELSE emptyQuota

RECURSIVE SumQuotas(_)
\* field-wise sum of the *quota records held by a cacher
SumQuotas(c) ==
    IF c = << >> THEN emptyQuota
    ELSE LET h == IF Head(c).value.isQuota THEN Head(c).value ELSE emptyQuota
             t == SumQuotas(Tail(c))
         IN quota(h.numReceivedMessages + t.numReceivedMessages,
                  h.sizeReceivedMessages + t.sizeReceivedMessages,
                  h.numProcessedMessages + t.numProcessedMessages,
                  h.sizeProcessedMessages + t.sizeProcessedMessages)

NoEviction == \A k \in Idx : calls[k].evicted = {}

OnlyGlobalCalls == \A k \in Idx : calls[k].op = "AccumulateGlobal"

\* ----------------------------------------------------------------- claims --

\* C1 (as stated): once an Accumulate(p, s) call has returned false, every
\* later Accumulate call for p returns false until Reset, whatever other
\* peers do in between.
C1_StickyUntilReset ==
    \A i, j \in Idx :
        (i < j /\ calls[i].op = "Accumulate" /\ ~calls[i].ret
               /\ IsAccumulate(j, calls[i].identifier))
            => ~calls[j].ret

\* C1 (amended): once an Accumulate(p, s) call has returned false, every later
\* Accumulate call for p returns false until Reset or until p's record is
\* evicted from the cacher by the calls of other peers.
C1_StickyUntilResetOrEviction ==
    \A i, j \in Idx :
        (i < j /\ calls[i].op = "Accumulate" /\ ~calls[i].ret
               /\ IsAccumulate(j, calls[i].identifier)
               /\ ~EvictedBetween(calls[i].identifier, i, j))
            => ~calls[j].ret

\* C1 witness: a peer's Accumulate rejected on the peer's own budget, then a
\* call of another peer that evicts nothing, then the first peer rejected again.
C1_Witness ==
    \E i, j \in Idx :
        /\ i + 1 < j
        /\ calls[i].op = "Accumulate" /\ ~calls[i].ret /\ calls[i].inCache
        /\ GlobalBudgetLeftAt(i)
        /\ IsAccumulate(j, calls[i].identifier) /\ ~calls[j].ret
        /\ calls[i + 1].identifier # calls[i].identifier
        /\ ~EvictedBetween(calls[i].identifier, i, j)

\* C2 (as stated): every Accumulate(p, s) call such that the Accumulate calls
\* for p since construction or the last Reset, this one included, number at
\* most maxMessagesPerPeer and total at most maxSizePerPeer bytes returns true.
C2_WithinPeerBudgetAdmitted ==
    \A j \in Idx :
        LET own == {i \in 1..j : IsAccumulate(i, calls[j].identifier)} IN
        (/\ calls[j].op = "Accumulate"
         /\ Cardinality(own) <= maxMessagesPerPeer
         /\ SizeSum(own) <= maxSizePerPeer)
            => calls[j].ret

\* C2 (amended): an Accumulate(p, s) call returns true when the Accumulate and
\* AccumulateGlobal calls for p since construction or the last Reset, this one
\* included, number at most maxMessagesPerPeer and total at most maxSizePerPeer
\* bytes, and the AccumulateGlobal calls made before it number at most
\* maxMessages and total at most maxSize bytes.
C2_WithinBothBudgetsAdmitted ==
    \A j \in Idx :
        LET own == {i \in 1..j : calls[i].identifier = calls[j].identifier} IN
        (/\ calls[j].op = "Accumulate"
         /\ Cardinality(own) <= maxMessagesPerPeer
         /\ SizeSum(own) <= maxSizePerPeer
         /\ GlobalBudgetLeftAt(j))
            => calls[j].ret

\* C2 witness: a peer's call that uses up exactly its message and byte budget,
\* made to a record already in the cacher, is admitted.
C2_Witness ==
    \E j \in Idx :
        LET own == {i \in 1..j : calls[i].identifier = calls[j].identifier} IN
        /\ calls[j].op = "Accumulate" /\ calls[j].inCache /\ calls[j].ret
        /\ Cardinality(own) = maxMessagesPerPeer
        /\ SizeSum(own) = maxSizePerPeer
        /\ GlobalBudgetLeftAt(j)

\* C3: after Reset the cacher is empty and the global record is all zeros, and
\* the next Accumulate(p, s) returns true for every peer and every size.
C3_AfterReset ==
    afterReset =>
        /\ calls = << >> => (cacher = << >> /\ globalQuota = emptyQuota)
        /\ (calls # << >> /\ calls[1].op = "Accumulate") => calls[1].ret

\* C3 witness: the first call after a Reset is an Accumulate of a size above
\* the per-peer byte budget, and it was admitted.
C3_Witness ==
    /\ afterReset
    /\ Len(calls) = 1
    /\ calls[1].op = "Accumulate" /\ calls[1].size > maxSizePerPeer /\ calls[1].ret

\* C4 (as stated): the number of Accumulate calls that return true between two
\* Resets, summed over all peers, is at most maxMessages.
C4_AccumulateAdmissionsWithinGlobalCap ==
    Cardinality({i \in Idx : calls[i].op = "Accumulate" /\ calls[i].ret}) <= maxMessages

\* C4 (amended): the number of AccumulateGlobal calls that return true between
\* two Resets, summed over all peers, is at most maxMessages; Accumulate calls
\* are not charged to the global budget.
C4_GlobalAdmissionsWithinGlobalCap ==
    Cardinality({i \in Idx : calls[i].op = "AccumulateGlobal" /\ calls[i].ret}) <= maxMessages

\* C4 witness: maxMessages AccumulateGlobal calls were admitted, by more than
\* one peer, and a further one was rejected.
C4_Witness ==
    /\ Cardinality({i \in Idx : calls[i].op = "AccumulateGlobal" /\ calls[i].ret}) = maxMessages
    /\ \E i, j \in Idx : /\ calls[i].op = "AccumulateGlobal" /\ calls[i].ret
                         /\ calls[j].op = "AccumulateGlobal" /\ calls[j].ret
                         /\ calls[i].identifier # calls[j].identifier
    /\ \E i \in Idx : calls[i].op = "AccumulateGlobal" /\ ~calls[i].ret

\* C5 (as stated): for every peer p, between two Resets the calls for p that
\* return true number at most maxMessagesPerPeer and their sizes total at most
\* maxSizePerPeer.
C5_PeerCapsRespected ==
    \A p \in Peers :
        LET adm == {i \in Idx : calls[i].identifier = p /\ calls[i].ret} IN
        /\ Cardinality(adm) <= maxMessagesPerPeer
        /\ SizeSum(adm) <= maxSizePerPeer

\* C5 (amended): for every peer p whose record has not been evicted since the
\* last Reset, the calls for p that returned true number at most
\* maxMessagesPerPeer, and their sizes total at most maxSizePerPeer unless the
\* only admitted call is p's first one, which is admitted whatever its size.
C5_PeerCapsRespectedUnlessEvicted ==
    \A p \in Peers :
        LET adm == {i \in Idx : calls[i].identifier = p /\ calls[i].ret} IN
        (\A k \in Idx : p \notin calls[k].evicted) =>
            /\ Cardinality(adm) <= maxMessagesPerPeer
            /\ Cardinality(adm) >= 2 => SizeSum(adm) <= maxSizePerPeer

\* C5 witness: a peer never evicted has used its whole message budget through
\* both kinds of call and has had a further call rejected.
C5_Witness ==
    \E p \in Peers :
        LET adm == {i \in Idx : calls[i].identifier = p /\ calls[i].ret} IN
        /\ \A k \in Idx : p \notin calls[k].evicted
        /\ Cardinality(adm) = maxMessagesPerPeer
        /\ \E i, j \in adm : calls[i].op # calls[j].op
        /\ \E i \in Idx : calls[i].identifier = p /\ ~calls[i].ret

C8_AccumulateLeavesGlobalUnchanged ==
    [][(Len(calls') = Len(calls) + 1 /\ calls'[Len(calls')].op = "Accumulate")
          => globalQuota' = globalQuota]_vars

\* C8 witness: the global record is non-zero and the latest calls are an
\* admitted and a rejected Accumulate.
C8_Witness ==
    /\ Len(calls) >= 3
    /\ globalQuota.numProcessedMessages > 0
    /\ calls[Len(calls)].op = "Accumulate" /\ ~calls[Len(calls)].ret
    /\ calls[Len(calls) - 1].op = "Accumulate" /\ calls[Len(calls) - 1].ret

\* C9: a call that returns false leaves the peer's processed counters and the
\* global processed counters as they were before the call.
C9_RejectionProcessesNothing ==
    [][(Len(calls') = Len(calls) + 1 /\ ~calls'[Len(calls')].ret)
          => LET p == calls'[Len(calls')].identifier IN
             /\ QuotaOf(cacher', p).numProcessedMessages = QuotaOf(cacher, p).numProcessedMessages
             /\ QuotaOf(cacher', p).sizeProcessedMessages = QuotaOf(cacher, p).sizeProcessedMessages
             /\ globalQuota'.numProcessedMessages = globalQuota.numProcessedMessages
             /\ globalQuota'.sizeProcessedMessages = globalQuota.sizeProcessedMessages]_vars

\* C9 witness: an AccumulateGlobal call was just rejected on the peer's budget
\* while the peer's record and the global record hold processed messages.
C9_Witness ==
    /\ calls # << >>
    /\ calls[Len(calls)].op = "AccumulateGlobal" /\ ~calls[Len(calls)].ret
    /\ ~isGlobalQuotaReached(globalQuota)
    /\ QuotaOf(cacher, calls[Len(calls)].identifier).sizeProcessedMessages > 0
    /\ globalQuota.sizeProcessedMessages > 0

\* C10 (as stated): an Accumulate for a peer absent from the cacher with a size
\* above maxSizePerPeer returns true and inserts the record {1, size, 1, size};
\* every later Accumulate for that peer returns false until Reset.
C10_OversizeFirstAdmittedOnce ==
    \A j \in Idx :
        (calls[j].op = "Accumulate" /\ ~calls[j].inCache /\ calls[j].size > maxSizePerPeer)
            => /\ calls[j].ret
               /\ j = Len(calls) =>
                     QuotaOf(cacher, calls[j].identifier)
                        = quota(1, calls[j].size, 1, calls[j].size)
               /\ \A k \in Idx : (j < k /\ IsAccumulate(k, calls[j].identifier))
                                    => ~calls[k].ret

\* C10 (amended): an Accumulate for a peer absent from the cacher with a size
\* above maxSizePerPeer, made while the global budget is not exceeded, returns
\* true and inserts the record {1, size, 1, size}; every later Accumulate for
\* that peer returns false until Reset or until the peer's record is evicted.
C10_OversizeFirstAdmittedOnceUnlessEvicted ==
    \A j \in Idx :
        (/\ calls[j].op = "Accumulate" /\ ~calls[j].inCache
         /\ calls[j].size > maxSizePerPeer
         /\ GlobalBudgetLeftAt(j))
            => /\ calls[j].ret
               /\ j = Len(calls) =>
                     QuotaOf(cacher, calls[j].identifier)
                        = quota(1, calls[j].size, 1, calls[j].size)
               /\ \A k \in Idx : (/\ j < k
                                  /\ IsAccumulate(k, calls[j].identifier)
                                  /\ ~EvictedBetween(calls[j].identifier, j, k))
                                    => ~calls[k].ret

\* C10 witness: a peer absent from the cacher was admitted with an oversize
\* first message and its next two Accumulate calls, one of size 0, were rejected.
C10_Witness ==
    \E j \in Idx :
        /\ j + 2 <= Len(calls)
        /\ calls[j].op = "Accumulate" /\ ~calls[j].inCache
        /\ calls[j].size > maxSizePerPeer /\ calls[j].ret
        /\ IsAccumulate(j + 1, calls[j].identifier) /\ ~calls[j + 1].ret
        /\ IsAccumulate(j + 2, calls[j].identifier) /\ ~calls[j + 2].ret
        /\ calls[j + 1].size = 0

\* ------------------------------------------------------ claims: constructor --
\* C11: NewQuotaFloodPreventer returns an error and no engine when the cacher
\* is nil, a status handler is nil or one of the four maxima is below 1;
\* otherwise it returns no error and an engine whose global record is all zero
C11_ConstructorContract ==
    newResult # NotCalled =>
        LET invalid ==
                \/ newArgs.cacher = "nil"
                \/ \E i \in DOMAIN newArgs.statusHandlers :
                       newArgs.statusHandlers[i] = "nil"
                \/ newArgs.maxMessagesPerPeer < 1
                \/ newArgs.maxTotalSizePerPeer < 1
                \/ newArgs.maxMessages < 1
                \/ newArgs.maxTotalSize < 1
        IN IF invalid
           THEN newResult.err # "nil" /\ newResult.engine = NilEngine
           ELSE /\ newResult.err = "nil"
                /\ newResult.engine # NilEngine
                /\ newResult.engine.globalQuota = quota(0, 0, 0, 0)

\* the constructor refused arguments whose only flaw is a zero global byte
\* maximum
C11_Witness ==
    /\ newResult.err = "ErrInvalidValue"
    /\ newArgs.cacher = "ok"
    /\ \A i \in DOMAIN newArgs.statusHandlers : newArgs.statusHandlers[i] = "ok"
    /\ Len(newArgs.statusHandlers) > 0
    /\ newArgs.maxMessagesPerPeer >= 1
    /\ newArgs.maxTotalSizePerPeer >= 1
    /\ newArgs.maxMessages >= 1
    /\ newArgs.maxTotalSize = 0

\* ------------------------------------------------- claims: pool cleaner --
\* the record the reaper handles in a step: the hash leaving the pass's to-do set
Visited == reaper.todo \ reaper'.todo

InItsStore(hash) ==
    StoreGet(pools, mapTxsRounds[hash].txStore, hash)

\* C12: when a pass handles the record of a hash that is still in its
\* sub-cache and whose age current round - arrival round exceeds
\* MaxRoundsToKeepUnprocessedTransactions, that step removes the hash from the
\* sub-cache and deletes its record; a pass that leaves no record returns 0
C12_StaleRemoved ==
    [][/\ \A hash \in Visited :
              (/\ InItsStore(hash)
               /\ round - mapTxsRounds[hash].round
                     > MaxRoundsToKeepUnprocessedTransactions)
              => (/\ hash \notin DOMAIN mapTxsRounds'
                  /\ ~StoreGet(pools', mapTxsRounds[hash].txStore, hash))
        /\ ((reaper.pc = "pass" /\ reaper'.pc = "sleep" /\ mapTxsRounds' = << >>)
              => reaper'.ret = 0)]_vars

\* a pass has just removed a stale transaction and returned 0
C12_Witness ==
    /\ reaper.pc = "sleep"
    /\ reaper.ret = 0
    /\ mapTxsRounds = << >>
    /\ fired["h1"] = "no"
    /\ putsLeft = MaxPuts - 1
    /\ inflight = {}
    /\ round > MaxRoundsToKeepUnprocessedTransactions
    /\ \A t \in TxTypes : \A id \in DOMAIN pools[t] : pools[t][id] = {}

\* C13: when a pass handles the record of a hash that is no longer in its
\* sub-cache, that step deletes the record and leaves every pool as it was,
\* whatever the age of the record
C13_MissingForgotten ==
    [][\A hash \in Visited :
          ~InItsStore(hash)
          => (/\ hash \notin DOMAIN mapTxsRounds'
              /\ pools' = pools)]_vars

\* a tracked hash was removed by a third party before it grew stale and its
\* record is next in the running pass
C13_Witness ==
    /\ reaper.pc = "pass"
    /\ "h1" \in reaper.todo
    /\ "h1" \in DOMAIN mapTxsRounds
    /\ ~InItsStore("h1")
    /\ round - mapTxsRounds["h1"].round <= MaxRoundsToKeepUnprocessedTransactions

InPool(txType, strCache, hash) ==
    strCache \in DOMAIN pools[txType] /\ hash \in pools[txType][strCache]

CallbackPending(txType, hash) ==
    \E cb \in inflight : cb.txType = txType /\ cb.key = hash

TrackedIn(txType, strCache, hash) ==
    /\ hash \in DOMAIN mapTxsRounds
    /\ mapTxsRounds[hash].txStore = ShardDataStore(pools, txType, strCache)

\* C14 as stated: every transaction put into a sub-cache of one of the three
\* pools, its callback having run on a value of the expected type, leaves the
\* pool in the end (removed by the reaper unless a third party removes it
\* first)
C14_EveryPooledTxReaped ==
    \A txType \in TxTypes, strCache \in StoreIds, hash \in Hashes :
        (/\ InPool(txType, strCache, hash)
         /\ ~CallbackPending(txType, hash)
         /\ fired[hash] # "dropped")
            ~> ~InPool(txType, strCache, hash)

\* C14: every pooled transaction whose pending record points at the sub-cache
\* that holds it leaves the pool in the end (removed by the reaper unless a
\* third party removes it first)
C14_TrackedTxReaped ==
    \A txType \in TxTypes, strCache \in StoreIds, hash \in Hashes :
        (InPool(txType, strCache, hash) /\ TrackedIn(txType, strCache, hash))
            ~> ~InPool(txType, strCache, hash)

\* a tracked reward transaction was reaped: nothing is pooled or tracked any
\* more, no put is left and the last pass returned 0
C14_Witness ==
    /\ putsLeft = 0
    /\ fired = [h \in Hashes |-> "no"]
    /\ inflight = {}
    /\ mapTxsRounds = << >>
    /\ reaper.pc = "sleep"
    /\ DOMAIN pools[rewardTx] = {ShardCacherIdentifier(MetachainShardId, SelfId)}
    /\ pools[rewardTx][ShardCacherIdentifier(MetachainShardId, SelfId)] = {}
    /\ round = MaxRound

\* C15 as stated: a hash has a pending record exactly when a callback for it
\* has run since its record was last deleted (or since construction)
C15_RecordIffCallbackFired ==
    \A hash \in Hashes :
        hash \in DOMAIN mapTxsRounds <=> fired[hash] # "no"

\* C15: a hash has a pending record exactly when an attributed callback for
\* it (a key, a value of the expected type, an existing sub-cache for the
\* computed shard pair) has run since its record was last deleted (or since
\* construction)
C15_RecordIffCallbackAttributed ==
    \A hash \in Hashes :
        hash \in DOMAIN mapTxsRounds <=> fired[hash] = "attributed"

\* one hash is tracked after an attributed callback, the other is not after
\* an ignored one
C15_Witness ==
    /\ fired["h1"] = "attributed"
    /\ "h1" \in DOMAIN mapTxsRounds
    /\ fired["h2"] = "ignored"
    /\ "h2" \notin DOMAIN mapTxsRounds
    /\ inflight = {}

\* C16 as stated: no callback is kept at the lock while the running pass
\* handles more than one record
C16_CallbackWaitsOneRecord ==
    \A cb \in inflight : cb.waited <= 1

\* the callbacks that return in a step after going to the lock
ReturnedFromLock ==
    {cb \in inflight :
        /\ \A other \in inflight' :
               <<other.txType, other.key, other.value>> # <<cb.txType, cb.key, cb.value>>
        /\ cb.key # NilKey
        /\ cb.txType = blockTx => cb.value.kind = "WrappedTransaction"
        /\ cb.txType = unsignedTx => cb.value.kind = "TransactionHandler"}

\* C16: the pass keeps the lock from its first to its last record: while a
\* pass is running no record is added to the pending map and no callback that
\* goes to the lock returns
C16_CallbackWaitsWholePass ==
    [][reaper.pc = "pass" =>
          (/\ DOMAIN mapTxsRounds' \subseteq DOMAIN mapTxsRounds
           /\ ReturnedFromLock = {})]_vars

\* a callback is still at the lock after the running pass has handled two
\* records
C16_Witness ==
    /\ reaper.pc = "pass"
    /\ reaper.todo = {}
    /\ \E cb \in inflight :
          /\ cb.waited = 2
          /\ cb.txType = rewardTx
          /\ ShardCacherIdentifier(MetachainShardId, SelfId) \in DOMAIN pools[rewardTx]

\* ------------------------------- claims: interceptors container factory --
Built == sicf # NotBuilt

SingleFlawArgs ==
    {FactoryArgs({h}, <<1>>, d) : h \in Collaborators, d \in {0, 1}}
    \cup {FactoryArgs({}, << >>, d) : d \in {0, 1}}

Flaw(a) == IF a.nil = {} THEN "ChainID" ELSE CHOOSE h \in a.nil : TRUE

\* the roles that share an error
SharedErrors ==
    {{"KeyGen", "BlockSignKeyGen"}, {"SingleSigner", "BlockSingleSigner"}}

\* C18 as stated: two different flaws never give the same error
C18_DistinctErrors ==
    (Built /\ args \in SingleFlawArgs /\ sicf.err # "nil") =>
        \A other \in SingleFlawArgs :
            Flaw(other) # Flaw(args)
            => NewShardInterceptorsContainerFactory(other).err # sicf.err

\* C18: two different flaws give the same error exactly when they are the
\* two key generators (ErrNilKeyGen) or the two single signers
\* (ErrNilSingleSigner)
C18_DistinctErrorsButSharedRoles ==
    (Built /\ args \in SingleFlawArgs /\ sicf.err # "nil") =>
        \A other \in SingleFlawArgs :
            (/\ Flaw(other) # Flaw(args)
             /\ NewShardInterceptorsContainerFactory(other).err # "nil")
            => (NewShardInterceptorsContainerFactory(other).err = sicf.err
                <=> {Flaw(other), Flaw(args)} \in SharedErrors)

\* a nil BlockSignKeyGen alone was refused with the error of a nil KeyGen
C18_Witness ==
    /\ args.nil = {"BlockSignKeyGen"}
    /\ Len(args.ChainID) > 0
    /\ sicf.err = "ErrNilKeyGen"
    /\ sicf.factory = NilFactory

CreateFailed == created.err \notin {"not called", "nil"}

\* C19 as stated: after a failed Create no container is returned and no
\* interceptor is left in the factory's container or on the transport
C19_CreateAllOrNothing ==
    CreateFailed =>
        /\ created.container = NilContainer
        /\ container = {}
        /\ messenger.processors = {}

\* the groups of topics in the order Create wires them; a group enters the
\* container once all its interceptors are created
GenerationGroups ==
    LET towards(name, dests) ==
            [i \in DOMAIN dests |-> Topic(name, <<SelfId, dests[i]>>)]
        shards == [i \in 1..NumberOfShards |-> i - 1]
        meta == <<MetachainShardId>>
    IN << towards("transactions", shards \o meta),
          towards("unsignedTransactions", shards),
          towards("unsignedTransactions", meta),
          towards("rewardsTransactions", meta),
          <<Topic("shardBlocks", <<SelfId>>)>>,
          towards("txBlockBodies", shards \o meta),
          <<Topic("metachainBlocks", << >>)>>,
          towards("accountTrieNodes", meta) \o towards("validatorTrieNodes", meta) >>

GroupOf(topic) ==
    CHOOSE g \in DOMAIN GenerationGroups : topic \in Range(GenerationGroups[g])

PlaceOf(topic) ==
    CHOOSE i \in DOMAIN GenerationGroups[GroupOf(topic)] :
        GenerationGroups[GroupOf(topic)][i] = topic

CreatedBefore(topic) ==
    {t \in AllTopics :
        \/ GroupOf(t) < GroupOf(topic)
        \/ GroupOf(t) = GroupOf(topic) /\ PlaceOf(t) < PlaceOf(topic)}

AddedBefore(topic) ==
    {t \in AllTopics : GroupOf(t) < GroupOf(topic)}

\* C19: a failed Create returns its error and no container and undoes
\* nothing: the groups completed before the failure stay in the factory's
\* container and every interceptor created before it stays registered
C19_CreateStopsWithoutRollback ==
    CreateFailed =>
        /\ created.container = NilContainer
        /\ {e.key : e \in container} = AddedBefore(created.failure.topic)
        /\ messenger.processors = CreatedBefore(created.failure.topic)

\* Create failed on the last topic: everything wired before is still there
C19_Witness ==
    /\ CreateFailed
    /\ created.failure.topic = Topic("validatorTrieNodes", <<SelfId, MetachainShardId>>)
    /\ Cardinality(container) = Cardinality(AllTopics) - 2
    /\ Cardinality(messenger.processors) = Cardinality(AllTopics) - 1

Destinations == (0..(NumberOfShards - 1)) \cup {MetachainShardId}

\* C20: after a successful Create the keys of the container are exactly the
\* transactions, unsignedTransactions and txBlockBodies topics towards every
\* shard and the metachain, rewardsTransactions, accountTrieNodes and
\* validatorTrieNodes towards the metachain, shardBlocks of the shard and
\* metachainBlocks: 3N+8 topics, each with one interceptor, its own
C20_TopicSet ==
    created.err = "nil" =>
        /\ {e.key : e \in container} =
              {Topic(name, <<SelfId, i>>) :
                  name \in {"transactions", "unsignedTransactions", "txBlockBodies"},
                  i \in Destinations}
              \cup {Topic(name, <<SelfId, MetachainShardId>>) :
                  name \in {"rewardsTransactions", "accountTrieNodes",
                            "validatorTrieNodes"}}
              \cup {Topic("shardBlocks", <<SelfId>>), Topic("metachainBlocks", << >>)}
        /\ Cardinality({e.key : e \in container}) = 3 * NumberOfShards + 8
        /\ Cardinality(container) = 3 * NumberOfShards + 8
        /\ \A e \in container : e.interceptor = Interceptor(e.key)
        /\ created.container = Container(container)

\* Create succeeded on a factory built from valid arguments
C20_Witness ==
    /\ created.err = "nil"
    /\ args.nil = {}
    /\ Cardinality(container) = 3 * NumberOfShards + 8
    /\ messenger.processors = AllTopics

\* ------------------------------------------------ claims: the container --
\* the pairs of a call whose key the container holds when the pair is added
RefusedPairs(c) ==
    {i \in DOMAIN c.keys :
        \/ c.keys[i] \in ContainerKeys(c.before)
        \/ \E j \in 1..(i - 1) : c.keys[j] = c.keys[i]}

\* C21: Add(t, i) on a container not holding t, followed by Get(t), returns
\* i; Add or AddMultiple of a key the container already holds fails with the
\* duplicate-key error and leaves the interceptor held under that key as it
\* was; and each key maps to at most one interceptor whatever was called.
C21_ContainerRoundTrip ==
    /\ \A e1, e2 \in objects : e1.key = e2.key => e1 = e2
    /\ Len(containerCalls) = 2 =>
         LET prev == containerCalls[1]
             last == containerCalls[2]
         IN (/\ prev.op = "Add"
             /\ prev.keys[1] \notin ContainerKeys(prev.before)
             /\ last.op = "Get"
             /\ last.keys = prev.keys)
            => (/\ prev.err = "nil"
                /\ last.err = "nil"
                /\ last.got = prev.interceptors[1])
    /\ containerCalls # << >> =>
         LET last == containerCalls[Len(containerCalls)] IN
         (last.op \in {"Add", "AddMultiple"} /\ RefusedPairs(last) # {})
            => (/\ last.err = "ErrContainerKeyAlreadyExists"
                /\ \A k \in ContainerKeys(last.before) :
                      ContainerGet(objects, k) = ContainerGet(last.before, k))

\* an interceptor was added under a free key and read back, the other key
\* being held already
C21_Witness ==
    /\ Len(containerCalls) = 2
    /\ containerCalls[1].op = "Add"
    /\ containerCalls[1].err = "nil"
    /\ containerCalls[1].before # {}
    /\ containerCalls[2].op = "Get"
    /\ containerCalls[2].keys = containerCalls[1].keys
    /\ containerCalls[2].got = containerCalls[1].interceptors[1]

\* --------------------------------------------- claims: the interceptors --
\* the invocations between start_processing and end_processing
Processing == {i \in DOMAIN invocations : invocations[i].pc \in {"validate", "release"}}

PassedEveryGate(i) ==
    /\ invocations[i].admitted
    /\ invocations[i].acquired
    /\ invocations[i].message.deserializable
    /\ ~invocations[i].message.blacklisted
    /\ invocations[i].message.wellFormed
    /\ invocations[i].message.chainID = ConfiguredChainID

\* C23: a sink pool holds an inbound message only if the antiflood handler
\* admitted it, the throttle was acquired for it and deserialization,
\* blacklist and structural checks passed; a header of another chain is in no
\* pool and no pool handler was called with it.
C23_PoolWriteOnlyAfterEveryGate ==
    /\ \A e \in sinkPool :
          /\ invocations[e.by].message = e.message
          /\ PassedEveryGate(e.by)
    /\ \A h \in notified : \E e \in sinkPool : e.message.hash = h
    /\ \A i \in DOMAIN invocations :
          invocations[i].message.chainID # ConfiguredChainID
             => /\ \A e \in sinkPool : e.message # invocations[i].message
                /\ invocations[i].message.hash \notin notified

\* a sound header reached the pool while a header of another chain, admitted
\* and validated under the throttle, was dropped
C23_Witness ==
    /\ sinkPool # {}
    /\ \E i \in DOMAIN invocations :
          /\ invocations[i].pc = "done"
          /\ invocations[i].verdict = "ErrInvalidChainID"

\* ------------------------------------------ claims: disabled antiflood --
\* C24: the disabled antiflood handler admits everything: whatever setters
\* were called before, CanProcessMessage and CanProcessMessagesOnTopic return
\* nil for every peer, topic, count and size; and NewP2POutputAntiFlood with
\* Antiflood.Enabled = false returns such a handler, no error, and creates no
\* cache.
C24_DisabledAdmitsEverything ==
    /\ handlerCalls.last.method \in {"CanProcessMessage", "CanProcessMessagesOnTopic"}
          => handlerCalls.last.ret = "nil"
    /\ (outputAntiflood # NotAsked /\ ~mainConfig.Enabled)
          => /\ outputAntiflood.err = "nil"
             /\ outputAntiflood.handler.kind = "disabled"
             /\ outputAntiflood.caches = 0

\* the handler of a disabled antiflood admitted the largest count and size on
\* a topic after every setter had been called
C24_Witness ==
    /\ ~mainConfig.Enabled
    /\ mainConfig.Cache = "invalid"
    /\ handlerCalls.setters =
          {"ResetForTopic", "SetMaxMessagesForTopic", "ApplyConsensusSize", "SetDebugger"}
    /\ handlerCalls.last.method = "CanProcessMessagesOnTopic"
    /\ handlerCalls.last.num = Uint32Range - 1
    /\ handlerCalls.last.size = Uint64Range - 1
    /\ handlerCalls.last.ret = "nil"

\* ------------------------------------------- claims: the engine, second part --
\* the call this step appends to the history is an Accumulate for p that was
\* refused because of p's own budget, p's record being in the cacher
RejectedOnPeerBudget(p) ==
    /\ Len(calls') = Len(calls) + 1
    /\ calls'[Len(calls')].op = "Accumulate"
    /\ calls'[Len(calls')].identifier = p
    /\ calls'[Len(calls')].inCache
    /\ ~calls'[Len(calls')].ret
    /\ ~isGlobalQuotaReached(globalQuota)

\* C25 (as stated): when Accumulate refuses a peer held in the cacher because
\* its per-peer budget is exceeded, the record the cacher holds for that peer
\* is unchanged by the call.
C25_RejectedCallLeavesRecord ==
    [][\A p \in Peers :
          RejectedOnPeerBudget(p) => QuotaOf(cacher', p) = QuotaOf(cacher, p)]_vars

\* C25 (amended): such a call increments the received counters of the record
\* the cacher holds (by one message and by the size of the message) and
\* leaves its processed counters and the keys of the cacher as they were.
C25_RejectedCallChargesReceived ==
    [][\A p \in Peers :
          RejectedOnPeerBudget(p) =>
             /\ QuotaOf(cacher', p) =
                   received(QuotaOf(cacher, p), calls'[Len(calls')].size)
             /\ QuotaOf(cacher', p).numProcessedMessages =
                   QuotaOf(cacher, p).numProcessedMessages
             /\ QuotaOf(cacher', p).sizeProcessedMessages =
                   QuotaOf(cacher, p).sizeProcessedMessages
             /\ CacherKeys(cacher') = CacherKeys(cacher)]_vars

\* a peer held in the cacher was refused on its own budget, and the record
\* read from the cacher counts more received than processed messages
C25_Witness ==
    /\ calls # << >>
    /\ calls[Len(calls)].op = "Accumulate"
    /\ calls[Len(calls)].inCache
    /\ ~calls[Len(calls)].ret
    /\ ~isGlobalQuotaReached(globalQuota)
    /\ QuotaOf(cacher, calls[Len(calls)].identifier).numReceivedMessages
          > QuotaOf(cacher, calls[Len(calls)].identifier).numProcessedMessages

\* the AccumulateGlobal calls of the history that returned true
GlobalAdmissions == {i \in Idx : calls[i].op = "AccumulateGlobal" /\ calls[i].ret}

QuotaEntries(c) == {c[i] : i \in {j \in DOMAIN c : c[j].value.isQuota}}

\* C27: Reset notifies before it clears: each status handler receives
\* ResetStatistics, then one AddQuota for every peer whose record the cacher
\* holds, carrying the four counters that record had before the clear, then
\* SetGlobalQuota with the global counters as they were before zeroing; and
\* the step leaves the cacher empty and the global record zeroed.
C27_ResetNotifiesBeforeClear ==
    [][calls' = << >> =>
         /\ cacher' = << >>
         /\ globalQuota' = emptyQuota
         /\ DOMAIN statusLog' = 1..statusHandlers
         /\ \A h \in 1..statusHandlers :
               LET log == statusLog'[h] IN
               /\ Len(log) = Cardinality(QuotaEntries(cacher)) + 2
               /\ log[1].call = "ResetStatistics"
               /\ log[Len(log)] = [call |-> "SetGlobalQuota", quota |-> globalQuota]
               /\ \A i \in 2..(Len(log) - 1) : log[i].call = "AddQuota"
               /\ \A e \in QuotaEntries(cacher) :
                     \E i \in 2..(Len(log) - 1) :
                        /\ log[i].identifier = e.key
                        /\ log[i].quota = e.value]_vars

\* Reset was called on an engine whose cacher held a peer with more received
\* than processed messages and whose global record was charged: every handler
\* holds that peer's counters and the global counters, the engine holds none
C27_Witness ==
    /\ afterReset
    /\ cacher = << >>
    /\ globalQuota = emptyQuota
    /\ \A h \in 1..statusHandlers :
          /\ Len(statusLog[h]) = 3
          /\ statusLog[h][2].call = "AddQuota"
          /\ statusLog[h][2].quota.numReceivedMessages
                > statusLog[h][2].quota.numProcessedMessages
          /\ statusLog[h][3].quota.numReceivedMessages > 0

\* the Accumulate calls of size 0 made for p before position j and admitted
AdmittedZero(p, j) ==
    {i \in 1..(j - 1) : IsAccumulate(i, p) /\ calls[i].size = 0 /\ calls[i].ret}

\* C28 (as stated): Accumulate(p, 0) counts as a message: after
\* maxMessagesPerPeer admitted Accumulate(p, 0) calls the next Accumulate(p, 0)
\* returns false.
C28_ZeroSizeCountsAgainstBudget ==
    \A j \in Idx :
        (/\ calls[j].op = "Accumulate"
         /\ calls[j].size = 0
         /\ Cardinality(AdmittedZero(calls[j].identifier, j)) >= maxMessagesPerPeer)
            => ~calls[j].ret

\* the calls counted by AdmittedZero that were made after p's record was last
\* dropped from the cacher
AdmittedZeroSinceEviction(p, j) ==
    {i \in AdmittedZero(p, j) : \A k \in (i + 1)..(j - 1) : p \notin calls[k].evicted}

\* C28 (amended): while the global budget is not exceeded, Accumulate(p, 0)
\* adds one to the received messages of p's record (a peer without a record
\* gets one counting one message); so after maxMessagesPerPeer admitted
\* Accumulate(p, 0) calls the next Accumulate(p, 0) returns false, provided
\* p's record was not dropped from the cacher in between.
C28_ZeroSizeCountsUnlessEvicted ==
    [][(/\ Len(calls') = Len(calls) + 1
        /\ calls'[Len(calls')].op = "Accumulate"
        /\ calls'[Len(calls')].size = 0)
          => LET p == calls'[Len(calls')].identifier IN
             /\ ~isGlobalQuotaReached(globalQuota)
                   => QuotaOf(cacher', p).numReceivedMessages
                         = QuotaOf(cacher, p).numReceivedMessages + 1
             /\ Cardinality(AdmittedZeroSinceEviction(p, Len(calls) + 1))
                      >= maxMessagesPerPeer
                   => ~calls'[Len(calls')].ret]_vars

\* a peer that sent nothing but empty messages was refused for their number
C28_Witness ==
    /\ calls # << >>
    /\ calls[Len(calls)].op = "Accumulate"
    /\ calls[Len(calls)].size = 0
    /\ ~calls[Len(calls)].ret
    /\ ~isGlobalQuotaReached(globalQuota)
    /\ Cardinality(AdmittedZeroSinceEviction(calls[Len(calls)].identifier, Len(calls)))
          = maxMessagesPerPeer
    /\ QuotaOf(cacher, calls[Len(calls)].identifier).sizeReceivedMessages = 0
    /\ QuotaOf(cacher, calls[Len(calls)].identifier).numReceivedMessages
          = maxMessagesPerPeer + 1

\* the call this step appends to the history found a *quota for its peer in
\* the cacher and went on to count the message on it
CountedOnRecord(p) ==
    /\ Len(calls') = Len(calls) + 1
    /\ calls'[Len(calls')].identifier = p
    /\ ~isGlobalQuotaReached(IF calls'[Len(calls')].op = "AccumulateGlobal"
                             THEN globalQuota' ELSE globalQuota)
    /\ CacherHas(cacher, p)
    /\ cacher[CacherIndex(cacher, p)].value.isQuota

\* C29: whatever the size, the received bytes and received messages of a
\* peer's record after a call are at least what they were before it, so a
\* peer over its budget is still over it after sending a further message.
C29_CountersNeverDecrease ==
    [][\A p \in Peers :
          CountedOnRecord(p) =>
             /\ QuotaOf(cacher', p).sizeReceivedMessages
                   >= QuotaOf(cacher, p).sizeReceivedMessages
             /\ QuotaOf(cacher', p).numReceivedMessages
                   >= QuotaOf(cacher, p).numReceivedMessages
             /\ isPeerQuotaReached(QuotaOf(cacher, p))
                   => isPeerQuotaReached(QuotaOf(cacher', p))]_vars

\* C30: when a pass handles the record of a hash that is still in its
\* sub-cache and whose age, the current round minus its arrival round, is at
\* most MaxRoundsToKeepUnprocessedTransactions (equality included), that step
\* leaves the record, its arrival round and every pool as they were
C30_YoungRecordUntouched ==
    [][\A hash \in Visited :
          (/\ InItsStore(hash)
           /\ round - mapTxsRounds[hash].round
                 <= MaxRoundsToKeepUnprocessedTransactions)
          => (/\ hash \in DOMAIN mapTxsRounds'
              /\ mapTxsRounds'[hash] = mapTxsRounds[hash]
              /\ pools' = pools)]_vars

\* the running pass has handled a record whose age is exactly the limit, and
\* the record and its pool entry are still there
C30_Witness ==
    /\ reaper.pc = "pass"
    /\ "h1" \notin reaper.todo
    /\ "h1" \in DOMAIN mapTxsRounds
    /\ InItsStore("h1")
    /\ mapTxsRounds["h1"].round = 1
    /\ round - mapTxsRounds["h1"].round = MaxRoundsToKeepUnprocessedTransactions

\* the most recent put of a hash into the sub-cache a record points to
LastInsertion(hash) ==
    CHOOSE i \in insertions :
        /\ i.txType = mapTxsRounds[hash].txStore.txType
        /\ i.id = mapTxsRounds[hash].txStore.id
        /\ i.hash = hash

\* the step of the pass that takes the hash out of its sub-cache
Reaped(hash) ==
    /\ hash \in Visited
    /\ InItsStore(hash)
    /\ ~StoreGet(pools', mapTxsRounds[hash].txStore, hash)

\* C31 as stated: the pass never takes out of a sub-cache a hash whose most
\* recent put into that sub-cache is MaxRoundsToKeepUnprocessedTransactions
\* or fewer rounds old, also when the hash was taken out by a third party and
\* put back between two passes
C31_RecentInsertionNeverReaped ==
    [][\A hash \in Hashes :
          Reaped(hash)
          => round - LastInsertion(hash).round
                > MaxRoundsToKeepUnprocessedTransactions]_vars

\* C31 amended: the pass never takes out of a sub-cache a hash whose most
\* recent put into that sub-cache is MaxRoundsToKeepUnprocessedTransactions
\* or fewer rounds old, provided the cleaner held no record of the hash when
\* it was put; a hash put back while its record is pending keeps the arrival
\* round of that record
C31_RecentInsertionNeverReapedUnlessTracked ==
    [][\A hash \in Hashes :
          (Reaped(hash) /\ ~LastInsertion(hash).tracked)
          => round - LastInsertion(hash).round
                > MaxRoundsToKeepUnprocessedTransactions]_vars

\* a hash put while the cleaner held no record of it has been tracked, has
\* outlived the limit and is next in the running pass
C31_Witness ==
    /\ reaper.pc = "pass"
    /\ "h1" \in reaper.todo
    /\ "h1" \in DOMAIN mapTxsRounds
    /\ InItsStore("h1")
    /\ ~LastInsertion("h1").tracked
    /\ round - LastInsertion("h1").round > MaxRoundsToKeepUnprocessedTransactions
    /\ round - mapTxsRounds["h1"].round > MaxRoundsToKeepUnprocessedTransactions

\* the callbacks that return in a step
Returned ==
    {cb \in inflight :
        \A other \in inflight' :
            <<other.txType, other.key, other.value>> # <<cb.txType, cb.key, cb.value>>}

\* C32: a callback for a hash that already has a pending record, whichever
\* pool the record came from, leaves the record's round, shard pair, type and
\* sub-cache handle as they were; a record a callback creates carries the
\* index of the round clock at the time of the callback
C32_InsertOnlyWhenAbsent ==
    [][\A cb \in Returned :
          /\ cb.key \in DOMAIN mapTxsRounds
               => (/\ cb.key \in DOMAIN mapTxsRounds'
                   /\ mapTxsRounds'[cb.key] = mapTxsRounds[cb.key])
          /\ (cb.key \notin DOMAIN mapTxsRounds /\ cb.key \in DOMAIN mapTxsRounds')
               => mapTxsRounds'[cb.key].round = round]_vars

\* the record of a hash was created by the block pool's callback in an
\* earlier round, and the reward pool's callback for the same hash has run
\* since
C32_Witness ==
    /\ "h1" \in DOMAIN mapTxsRounds
    /\ mapTxsRounds["h1"].txType = blockTx
    /\ mapTxsRounds["h1"].round < round
    /\ ShardCacherIdentifier(MetachainShardId, SelfId) \in DOMAIN pools[rewardTx]
    /\ "h1" \in pools[rewardTx][ShardCacherIdentifier(MetachainShardId, SelfId)]
    /\ inflight = {}
    /\ putsLeft = 0

\* the shard pair a callback computes for its value
ComputedPair(cb) ==
    IF cb.txType = blockTx
    THEN ShardCacherIdentifier(cb.value.SenderShardID, cb.value.ReceiverShardID)
    ELSE IF cb.txType = rewardTx
    THEN ShardCacherIdentifier(MetachainShardId, SelfId)
    ELSE ShardCacherIdentifier(getShardFromAddress(cb.value.SndAddr),
                               getShardFromAddress(cb.value.RcvAddr))

\* the callback has no key, or a value of the wrong type for its pool, or
\* its pool has no sub-cache for the shard pair it computes
Unattributable(cb) ==
    \/ cb.key = NilKey
    \/ cb.txType = blockTx /\ cb.value.kind # "WrappedTransaction"
    \/ cb.txType = unsignedTx /\ cb.value.kind # "TransactionHandler"
    \/ ComputedPair(cb) \notin DOMAIN pools[cb.txType]

\* C33: a callback that cannot be attributed (no key, a value of the wrong
\* type for its pool, no sub-cache for the computed shard pair) returns and
\* leaves the pending map as it was
C33_UnattributableIgnored ==
    [][\A cb \in Returned :
          Unattributable(cb) => mapTxsRounds' = mapTxsRounds]_vars

\* a block-tx callback without a key and an unsigned-tx callback with a value
\* of the wrong type or for a shard pair without sub-cache have returned, and
\* no record was created
C33_Witness ==
    /\ ShardCacherIdentifier(SelfId, SelfId) \in DOMAIN pools[unsignedTx]
    /\ pools[unsignedTx][ShardCacherIdentifier(SelfId, SelfId)] = {"h1"}
    /\ ShardCacherIdentifier(SelfId, SelfId) \in DOMAIN pools[blockTx]
    /\ pools[blockTx][ShardCacherIdentifier(SelfId, SelfId)] = {NilKey}
    /\ fired["h1"] \in {"ignored", "dropped"}
    /\ inflight = {}
    /\ putsLeft = 0
    /\ mapTxsRounds = << >>
    /\ reaper = Asleep

\* the shard an address stands for: the node's own shard for the empty
\* address (all bytes zero, as long as the converter's addresses)
ShardOf(address) ==
    IF address = [i \in 1..AddressLen |-> 0] THEN SelfId
    ELSE address[Len(address)] % NumberOfShards

\* the shard pair the claim gives for a callback
ClaimedPair(cb) ==
    IF cb.txType = blockTx
    THEN <<cb.value.SenderShardID, cb.value.ReceiverShardID>>
    ELSE IF cb.txType = rewardTx
    THEN <<MetachainShardId, SelfId>>
    ELSE <<ShardOf(cb.value.SndAddr), ShardOf(cb.value.RcvAddr)>>

\* C34: the record a callback creates carries, as shard pair, the sender and
\* receiver shard of the wrapped transaction for block-tx, (metachain, self)
\* for reward-tx and the shards of the sender and receiver address for
\* unsigned-tx, the empty address standing for the node's own shard; its type
\* is the callback's and its handle is the sub-cache of that type's pool for
\* the pair
C34_RecordedShardPair ==
    [][\A cb \in Returned :
          (cb.key \notin DOMAIN mapTxsRounds /\ cb.key \in DOMAIN mapTxsRounds')
          => LET rec == mapTxsRounds'[cb.key]
             IN /\ <<rec.senderShardID, rec.receiverShardID>> = ClaimedPair(cb)
                /\ rec.txType = cb.txType
                /\ rec.txStore = [isNil |-> FALSE, txType |-> cb.txType,
                                  id |-> ClaimedPair(cb)]
                /\ ClaimedPair(cb) \in DOMAIN pools[cb.txType]]_vars

\* an unsigned transaction with the empty sender address is tracked in the
\* node's own shard, and a reward transaction from the metachain
C34_Witness ==
    /\ DOMAIN mapTxsRounds = {"h1", "h2"}
    /\ mapTxsRounds["h1"].txType = unsignedTx
    /\ mapTxsRounds["h1"].senderShardID = SelfId
    /\ mapTxsRounds["h1"].receiverShardID = SelfId
    /\ mapTxsRounds["h2"].txType = rewardTx
    /\ mapTxsRounds["h2"].senderShardID = MetachainShardId
    /\ mapTxsRounds["h2"].receiverShardID = SelfId
    /\ inflight = {}

\* who holds mutMapTxsRounds: the callbacks between Lock and Unlock, and the
\* pass while it runs
Holders == Cardinality(critical) + (IF reaper.pc = "pass" THEN 1 ELSE 0)

\* C35: at no time are two of the callbacks and the pass inside their
\* critical sections together; the lookup and the insertion of a callback
\* are atomic, so a record once created is never replaced by a callback
\* running alongside; and a record leaves the pending map only when the pass
\* visits it and finds its hash missing from the sub-cache or stale
C35_MutuallyExclusive ==
    /\ [](Holders <= 1)
    /\ [][\A hash \in DOMAIN mapTxsRounds :
             IF hash \in DOMAIN mapTxsRounds'
             THEN mapTxsRounds'[hash] = mapTxsRounds[hash]
             ELSE /\ hash \in Visited
                  /\ \/ ~InItsStore(hash)
                     \/ round - mapTxsRounds[hash].round
                           > MaxRoundsToKeepUnprocessedTransactions]_vars

\* one callback for a hash is between its lookup and its insertion while a
\* callback of another pool for the same hash is kept at the lock
C35_Witness ==
    /\ \E c \in critical :
          /\ c.key = "h1"
          /\ c.pc = "write"
          /\ ~c.ok
          /\ \E cb \in inflight :
                /\ cb.key = "h1"
                /\ cb.txType # c.txType
                /\ ~Entered(cb)
    /\ reaper.pc = "sleep"

\* ---------------------------------------- claims: cleaner constructor --
\* the errors that match the nil collaborators of a call
MatchingErrors(a) ==
    {e \in {"ErrNilPubkeyConverter", "ErrNilPoolsHolder", "ErrNilTransactionPool",
            "ErrNilRewardTxDataPool", "ErrNilUnsignedTxDataPool", "ErrNilRounder",
            "ErrNilShardCoordinator"} :
        \/ e = "ErrNilPubkeyConverter" /\ ~a.addressPubkeyConverter
        \/ e = "ErrNilPoolsHolder" /\ a.dataPool.isNil
        \/ e = "ErrNilTransactionPool" /\ ~a.dataPool.isNil /\ ~a.dataPool.Transactions
        \/ e = "ErrNilRewardTxDataPool" /\ ~a.dataPool.isNil /\ ~a.dataPool.RewardTransactions
        \/ e = "ErrNilUnsignedTxDataPool" /\ ~a.dataPool.isNil /\ ~a.dataPool.UnsignedTransactions
        \/ e = "ErrNilRounder" /\ ~a.rounder
        \/ e = "ErrNilShardCoordinator" /\ ~a.shardCoordinator}

\* C36: called with a nil converter, pools holder, pool, rounder or shard
\* coordinator, NewTxsPoolsCleaner returns an error matching a nil
\* collaborator and no cleaner, registers no handler and starts no goroutine;
\* called with none nil it returns a cleaner with an empty pending map and no
\* error, registers one handler on each of the three pools and starts one
\* reaper goroutine
C36_ConstructorAllOrNothing ==
    tpcResult.called =>
        IF MatchingErrors(tpcArgs) # {}
        THEN /\ tpcResult.err \in MatchingErrors(tpcArgs)
             /\ tpcResult.tpc.isNil
             /\ \A t \in TxTypes : tpcResult.handlers[t] = 0
             /\ tpcResult.goroutines = 0
        ELSE /\ tpcResult.err = "nil"
             /\ ~tpcResult.tpc.isNil
             /\ tpcResult.tpc.mapTxsRounds = << >>
             /\ \A t \in TxTypes : tpcResult.handlers[t] = 1
             /\ tpcResult.goroutines = 1

\* the constructor has refused a call whose only nil collaborator is the
\* rounder
C36_Witness ==
    /\ tpcResult.called
    /\ tpcResult.err = "ErrNilRounder"
    /\ MatchingErrors(tpcArgs) = {"ErrNilRounder"}

\* the place of a topic's generation step in the order the claim gives
StepOf(topic) ==
    CASE topic.name = "transactions" -> 1
      [] topic.name = "unsignedTransactions" -> 2
      [] topic.name = "rewardsTransactions" -> 3
      [] topic.name = "shardBlocks" -> 4
      [] topic.name = "txBlockBodies" -> 5
      [] topic.name = "metachainBlocks" -> 6
      [] topic.name \in {"accountTrieNodes", "validatorTrieNodes"} -> 7

\* C37: Create runs the steps tx, unsigned-tx, reward-tx, shard header,
\* miniblocks, metachain header, trie nodes in this order and stops at the
\* first that fails: it then returns that step's error and no container,
\* every earlier step has run completely and no later step has run at all;
\* the container is returned only when all seven steps succeeded
C37_CreateStepsInOrder ==
    created # NotCreated =>
        IF created.failure = NoFailure
        THEN /\ created.err = "nil"
             /\ created.container = Container(container)
             /\ messenger.topics = AllTopics
        ELSE /\ created.err = "Err" \o created.failure.call
             /\ created.container = NilContainer
             /\ \A t \in AllTopics :
                   /\ StepOf(t) < StepOf(created.failure.topic)
                        => t \in messenger.processors
                   /\ StepOf(t) > StepOf(created.failure.topic)
                        => t \notin messenger.topics

\* Create failed in its fourth step, the shard header one
C37_Witness ==
    /\ created.err = "ErrCreateTopic"
    /\ created.failure.topic.name = "shardBlocks"
    /\ \E t \in messenger.processors : t.name = "rewardsTransactions"
    /\ \A t \in messenger.topics : StepOf(t) < 4

\* ------------------------------------------ claims: intercepted blocks --
\* the shard ids a list carries: sender and receiver of every miniblock
\* header, and for shard data its own shard id too
IdsOfHeaders(headers) ==
    UNION {{headers.items[i].SenderShardID, headers.items[i].ReceiverShardID} :
              i \in DOMAIN headers.items}

IdsOf(a) ==
    IF a.function = "checkMiniblocks" THEN IdsOfHeaders(a.list)
    ELSE UNION {{a.list.items[i].ShardID}
                   \cup IdsOfHeaders(a.list.items[i].ShardMiniBlockHeaders) :
                   i \in DOMAIN a.list.items}

ValidShardIds == (0..(NumberOfShards - 1)) \cup {MetachainShardId}

\* C38: checkMiniblocks and checkMetaShardInfo return nil for a nil or empty
\* list, ErrInvalidShardId when a sender, receiver or shard data shard id
\* lies outside the shards and the metachain, and nil when every id lies
\* inside
C38_ShardIdsValidated ==
    checkResult # "not called" =>
        /\ (checkArgs.list.isNil \/ checkArgs.list.items = << >>)
              => checkResult = "nil"
        /\ checkResult =
              (IF IdsOf(checkArgs) \subseteq ValidShardIds
               THEN "nil" ELSE "ErrInvalidShardId")

\* shard data of a valid shard whose only miniblock header names a receiver
\* shard that does not exist was refused
C38_Witness ==
    /\ checkResult = "ErrInvalidShardId"
    /\ checkArgs.function = "checkMetaShardInfo"
    /\ Len(checkArgs.list.items) = 1
    /\ checkArgs.list.items[1].ShardID = 0
    /\ IdsOfHeaders(checkArgs.list.items[1].ShardMiniBlockHeaders)
          = {MetachainShardId, NumberOfShards}

\* ----------------------------------------- claims: validators provider --
\* the calls that return in a step
Returning == {g \in Callers : callers[g].pc \notin Outside /\ callers'[g].pc = "returned"}

\* C39: a call of GetLatestValidators whose read of the root hash or of the
\* validator info fails returns the map built by the last successful call
\* (the empty map if there was none) and leaves the cached map as it was; a
\* call that succeeds returns the map built from the validators under the
\* root hash it read and makes it the cached map; and no two calls are
\* between Lock and Unlock together
C39_FallsBackToCache ==
    /\ [](Cardinality({g \in Callers : callers[g].pc \notin Outside}) <= 1)
    /\ [][\A g \in Returning :
             IF callers'[g].err # "nil"
             THEN /\ callers'[g].ret = lastSuccess
                  /\ cachedMap' = cachedMap
             ELSE /\ callers'[g].ret = mapToReturn(ValidatorsAt(callers[g].latestHash))
                  /\ cachedMap' = callers'[g].ret]_vars

\* the trie has moved on, a call failed to read the validator info and
\* returned the map an earlier call had built from the older root
C39_Witness ==
    /\ callers["g2"].pc = "returned"
    /\ callers["g2"].err = "ErrValidatorInfo"
    /\ callers["g2"].latestHash = 2
    /\ DOMAIN callers["g2"].ret = {"01"}
    /\ callers["g2"].ret = cachedMap
    /\ callers["g1"].pc = "returned"
    /\ callers["g1"].err = "nil"

====
